---- MODULE Spec2Model ----
(***************************************************************************)
(* A model of the multi-source fetch / fallback / normalize / cache        *)
(* pipeline: clinical_trials.py, news_sources.py, fetcher.py,              *)
(* edgar_financials.py and pipeline_runner.py.                             *)
(*                                                                         *)
(* Every component has its own variables and its own specification; a      *)
(* specification holds the variables of the other components at their      *)
(* idle values.                                                            *)
(***************************************************************************)
EXTENDS Integers, Sequences, FiniteSets, TLC

VARIABLES
    \* clinical_trials._normalize_phase
    raw_phase,      \* the argument
    phase_pc,       \* "call" | "done"
    phase_ret,      \* the returned category
    \* news_sources.enrich_with_html_fallback
    enr_input,      \* the articles as passed in
    enr_articles,   \* the same dicts, mutated in place; `enriched` aliases them
    enr_max,        \* max_fallback
    enr_i,          \* index of the next article of the for loop
    enr_count,      \* count
    enr_fetches,    \* the fetch_url calls made: <<index, got content>>
    enr_pc,         \* "idle" | "loop" | "done"
    \* news_sources: the result cache and fetch_company_news_multi
    now,            \* datetime.utcnow(), in hours
    cache,          \* CACHE_DIR: file name -> [exists, text, mtime]
    company_name,   \* the arguments of the call in progress
    max_results,
    use_cache,
    articles,       \* the combined candidates of the tiers
    norm,           \* the normalized list
    news_ret,       \* the value returned
    calls,          \* what the call in progress has called, in order
    news_pc,        \* "idle" | "check" | "serpapi" | "bing" | "gdelt" |
                    \* "enrich" | "normalize" | "save" | "return" | "raised"
    \* clinical_trials.normalize_trials
    raw_results,    \* the argument: a dict, or a list of (variant, raw_json)
    trials_pc,      \* "idle" | "call" | "done" | "raised"
    trials_ret,     \* the value returned
    \* pipeline_runner.build_profiles, the clinical trials of one company
    variants_str,   \* the row's name_variants cell
    variants,       \* the list parsed from it
    variant_i,      \* position of the loop over variants
    raw_trials,     \* the studies collected so far
    trial_queries,  \* what fetch_trials did for each variant, in order
    normalized_trials,  \* the "pipeline" section
    pipeline_pc,    \* "idle" | "parse" | "fetch" | "normalize" | "done"
    \* pipeline_runner.build_profiles, the financials of one company, and
    \* edgar_financials.fetch_edgar_filings called on its own
    ticker,         \* the row's ticker cell, or the argument
    cik,            \* the row's cik cell, or the argument
    filings,        \* what fetch_edgar_filings returned
    normalized_financials,  \* the "financial" section
    edgar_events,   \* the downloader's construction and its requests, in order
    financial_pc,   \* "idle" | "section" | "fetch" | "fetched" | "done" |
                    \* "raised"
    \* fetcher.fetch_url
    archive,        \* the archive directory: path -> text, or None
    url,            \* the arguments of the call in progress
    fetch_use_cache,
    max_retries,
    attempt,        \* the loop variable
    fetch_events,   \* the requests and sleeps of the call, in order
    fetch_ret,      \* the value returned
    fetched,        \* per path, the texts that requests for it have brought
    fetch_pc,       \* "idle" | "check" | "attempt" | "done"
    \* the provider adapters, each called on its own
    adapter,        \* the adapter called
    adapter_world,  \* the credentials and what the service does
    adapter_ret,    \* [raised, requests, result]
    adapter_pc,     \* "idle" | "call" | "returned" | "raised"
    \* the file system under the news cache
    disk,           \* "ok" | "read_fails" | "write_fails"
    \* pipeline_runner.build_profiles over a batch
    batch,          \* per row of the CSV, what its services do
    row_i,          \* the row the loop is at
    batch_results,  \* results, the profiles built so far
    profile_files,  \* the paths written, in order
    batch_pc,       \* "idle" | "rows" | "done" | "raised"
    \* extractor.extract_basic_metadata
    html_text,      \* the argument, as the parser sees it
    extract_ret,    \* the dict returned
    extract_pc      \* "idle" | "call" | "done"

phaseVars == <<raw_phase, phase_pc, phase_ret>>
enrichVars == <<enr_input, enr_articles, enr_max, enr_i, enr_count, enr_fetches, enr_pc>>

newsVars == <<now, cache, company_name, max_results, use_cache, articles, norm,
              news_ret, calls, news_pc>>

trialVars == <<raw_results, trials_pc, trials_ret>>

pipelineVars == <<variants_str, variants, variant_i, raw_trials, trial_queries,
                  normalized_trials, pipeline_pc>>

financialVars == <<ticker, cik, filings, normalized_financials, edgar_events,
                   financial_pc>>

fetchVars == <<archive, url, fetch_use_cache, max_retries, attempt,
               fetch_events, fetch_ret, fetched, fetch_pc>>

adapterVars == <<adapter, adapter_world, adapter_ret, adapter_pc>>

diskVars == <<disk>>

batchVars == <<batch, row_i, batch_results, profile_files, batch_pc>>
extractVars == <<html_text, extract_ret, extract_pc>>

\* exceptX is what an action of component X leaves alone.
vars == <<phaseVars, enrichVars, newsVars, trialVars, pipelineVars,
          financialVars, fetchVars, adapterVars, diskVars, batchVars,
          extractVars>>

exceptPhase == <<enrichVars, newsVars, trialVars, pipelineVars,
                 financialVars, fetchVars, adapterVars, diskVars,
                 batchVars, extractVars>>
exceptEnrich == <<phaseVars, newsVars, trialVars, pipelineVars,
                  financialVars, fetchVars, adapterVars, diskVars,
                  batchVars, extractVars>>
exceptNews == <<phaseVars, enrichVars, trialVars, pipelineVars,
                financialVars, fetchVars, adapterVars, diskVars, batchVars,
                extractVars>>
exceptTrials == <<phaseVars, enrichVars, newsVars, pipelineVars,
                  financialVars, fetchVars, adapterVars, diskVars,
                  batchVars, extractVars>>
exceptPipeline == <<phaseVars, enrichVars, newsVars, trialVars,
                    financialVars, fetchVars, adapterVars, diskVars,
                    batchVars, extractVars>>
exceptFinancial == <<phaseVars, enrichVars, newsVars, trialVars,
                     pipelineVars, fetchVars, adapterVars, diskVars,
                     batchVars, extractVars>>
exceptFetch == <<phaseVars, enrichVars, newsVars, trialVars, pipelineVars,
                 financialVars, adapterVars, diskVars, batchVars,
                 extractVars>>
exceptAdapter == <<phaseVars, enrichVars, newsVars, trialVars,
                   pipelineVars, financialVars, fetchVars, diskVars,
                   batchVars, extractVars>>
exceptDisk == <<phaseVars, enrichVars, newsVars, trialVars, pipelineVars,
                financialVars, fetchVars, adapterVars, batchVars,
                extractVars>>
exceptBatch == <<phaseVars, enrichVars, newsVars, trialVars, pipelineVars,
                 financialVars, fetchVars, adapterVars, diskVars,
                 extractVars>>
exceptExtract == <<phaseVars, enrichVars, newsVars, trialVars,
                   pipelineVars, financialVars, fetchVars, adapterVars,
                   diskVars, batchVars>>

\* Python's None, where the value it stands in for is a string.
None == "<None>"

\* bool(x) of a str-or-None value.
Truthy(x) == x # None /\ x # ""

Min(a, b) == IF a < b THEN a ELSE b

(***************************************************************************)
(* Strings                                                                 *)
(***************************************************************************)

\* `sub in s` of two Python strings.
Contains(s, sub) ==
    \E i \in 1..(Len(s) - Len(sub) + 1) : SubSeq(s, i, i + Len(sub) - 1) = sub

UpperLetters == <<"A", "B", "C", "D", "E", "F", "G", "H", "I", "J", "K", "L", "M",
                  "N", "O", "P", "Q", "R", "S", "T", "U", "V", "W", "X", "Y", "Z">>
LowerLetters == <<"a", "b", "c", "d", "e", "f", "g", "h", "i", "j", "k", "l", "m",
                  "n", "o", "p", "q", "r", "s", "t", "u", "v", "w", "x", "y", "z">>

LowerChar(c) ==
    IF \E k \in 1..26 : UpperLetters[k] = c
    THEN LowerLetters[CHOOSE k \in 1..26 : UpperLetters[k] = c]
    ELSE c

UpperChar(c) ==
    IF \E k \in 1..26 : LowerLetters[k] = c
    THEN UpperLetters[CHOOSE k \in 1..26 : LowerLetters[k] = c]
    ELSE c

RECURSIVE Lower(_)
\* str.lower()
Lower(s) ==
    IF s = "" THEN ""
    ELSE LowerChar(SubSeq(s, 1, 1)) \o Lower(SubSeq(s, 2, Len(s)))

RECURSIVE Upper(_)
\* str.upper()
Upper(s) ==
    IF s = "" THEN ""
    ELSE UpperChar(SubSeq(s, 1, 1)) \o Upper(SubSeq(s, 2, Len(s)))

RECURSIVE StringsOver(_, _)
\* Every string of exactly n characters of the alphabet.
StringsOver(alphabet, n) ==
    IF n = 0 THEN {""}
    ELSE {s \o c : s \in StringsOver(alphabet, n - 1), c \in alphabet}

(***************************************************************************)
(* clinical_trials._normalize_phase                                        *)
(***************************************************************************)

\* The eight canonical categories.
PhaseEnum == {"phase1", "phase2", "phase3", "phase4", "phase1_2", "phase2_3",
              "not_applicable", "unknown"}

_normalize_phase(label) ==
    IF ~Truthy(label) THEN "unknown"
    ELSE LET phase == Lower(label) IN
         IF Contains(phase, "1/2") THEN "phase1_2"
         ELSE IF Contains(phase, "2/3") THEN "phase2_3"
         ELSE IF Contains(phase, "1") THEN "phase1"
         ELSE IF Contains(phase, "2") THEN "phase2"
         ELSE IF Contains(phase, "3") THEN "phase3"
         ELSE IF Contains(phase, "4") THEN "phase4"
         ELSE IF Contains(phase, "not applicable") THEN "not_applicable"
         ELSE "unknown"

\* The labels of the classification table, as the registry writes them.
PhaseTable == {"Early Phase 1", "Phase 1", "Phase 1/Phase 2", "Phase 2",
               "Phase 2/Phase 3", "Phase 3", "Phase 4", "Not Applicable",
               "Phase 1/2", "Phase 2/3", "PHASE 1/2", "phase 2/3",
               "PHASE1", "PHASE2", "PHASE3", "PHASE4", "NA", "Unknown"}

PhaseAlphabet == {"1", "2", "3", "4", "/", "P"}
MaxLabelLen == 2

PhaseInputs ==
    PhaseTable \cup {None}
        \cup UNION {StringsOver(PhaseAlphabet, n) : n \in 0..MaxLabelLen}
        \cup {Upper(l) : l \in PhaseTable} \cup {Lower(l) : l \in PhaseTable}

PhaseIdle == raw_phase = None /\ phase_pc = "idle" /\ phase_ret = None

PhaseInit ==
    /\ raw_phase \in PhaseInputs
    /\ phase_pc = "call"
    /\ phase_ret = None

NormalizePhaseCall ==
    /\ phase_pc = "call"
    /\ phase_ret' = _normalize_phase(raw_phase)
    /\ phase_pc' = "done"
    /\ UNCHANGED <<raw_phase, exceptPhase>>

PhaseNext == NormalizePhaseCall

(***************************************************************************)
(* Python dicts with string keys and str-or-None values                    *)
(***************************************************************************)

\* d.get(k)
Get(d, k) == IF k \in DOMAIN d THEN d[k] ELSE None

\* d[k] = v
Put(d, k, v) == [x \in DOMAIN d \cup {k} |-> IF x = k THEN v ELSE d[x]]

\* Python's `x or y` on str-or-None values.
Or(x, y) == IF Truthy(x) THEN x ELSE y

RECURSIVE LStrip(_)
LStrip(s) ==
    IF s # "" /\ SubSeq(s, 1, 1) = " " THEN LStrip(SubSeq(s, 2, Len(s))) ELSE s

RECURSIVE RStrip(_)
RStrip(s) ==
    IF s # "" /\ SubSeq(s, Len(s), Len(s)) = " "
    THEN RStrip(SubSeq(s, 1, Len(s) - 1)) ELSE s

\* str.strip()
Strip(s) == RStrip(LStrip(s))

\* s[:n]
Prefix(s, n) == SubSeq(s, 1, Min(Len(s), n))

(***************************************************************************)
(* extractor.extract_basic_metadata                                        *)
(*                                                                         *)
(* A document is what the parser makes of the text: title_tag is           *)
(* soup.title.string and h1 is soup.h1.string (None when the tag is        *)
(* missing or holds no single string), meta_desc and og_desc are the       *)
(* content attributes of the two meta tags (None when the tag or the       *)
(* attribute is missing). A document of kind "malformed" makes the parser  *)
(* throw.                                                                  *)
(***************************************************************************)

SnippetLen == 200

\* A confidence that looks at the title only.
Confidence_title_only(title, description) == IF Truthy(title) THEN 6 ELSE 2

\* Confidence in tenths: 6 is 0.6, 2 is 0.2, 0 is 0.0.
\* `0.6 if title or description else 0.2`
Confidence(title, description) ==
    IF Truthy(title) \/ Truthy(description) THEN 6 ELSE 2

extract_basic_metadata(doc) ==
    IF doc.kind # "html"
    THEN [title |-> None, description |-> None, evidence_snippet |-> None,
          extraction_confidence |-> 0, error |-> "parse error"]
    ELSE LET title == IF Truthy(doc.title_tag) THEN Strip(doc.title_tag)
                      ELSE IF Truthy(doc.h1) THEN Strip(doc.h1)
                      ELSE None
             description == IF doc.meta_desc # None THEN Strip(doc.meta_desc)
                            ELSE IF doc.og_desc # None THEN Strip(doc.og_desc)
                            ELSE None
             snippet == IF Truthy(description) THEN Prefix(description, SnippetLen)
                        ELSE IF Truthy(title) THEN Prefix(title, SnippetLen)
                        ELSE None
         IN [title |-> title, description |-> description,
             evidence_snippet |-> snippet,
             extraction_confidence |-> Confidence(title, description),
             error |-> None]

Html(t, h, d, o) ==
    [kind |-> "html", title_tag |-> t, h1 |-> h, meta_desc |-> d, og_desc |-> o]

\* What is not text (None, a number): BeautifulSoup(...) throws.
Malformed == [kind |-> "malformed"]

RECURSIVE Repeat(_, _)
\* c * n
Repeat(c, n) ==
    IF n = 0 THEN ""
    ELSE LET half == Repeat(c, n \div 2)
         IN half \o half \o (IF n % 2 = 1 THEN c ELSE "")

\* A text one character longer than an evidence snippet.
LongText == Repeat("x", SnippetLen + 1)

\* soup.title.string and soup.h1.string: no tag, blank, padded, long.
TitleTexts == {None, " ", " Title ", LongText}
HeadingTexts == {None, " ", " Head "}

\* The content attributes of the two meta tags: no tag, empty, blank, text.
MetaContents == {None, "", " ", "Desc", LongText}
OgContents == {None, "", "Og"}

ExtractDocs ==
    {Html(t, h, d, o) : t \in TitleTexts, h \in HeadingTexts,
                        d \in MetaContents, o \in OgContents} \cup {Malformed}

NoMetadata == [title |-> None, description |-> None, evidence_snippet |-> None,
               extraction_confidence |-> 0, error |-> None]

ExtractIdle ==
    html_text = Malformed /\ extract_ret = NoMetadata /\ extract_pc = "idle"

ExtractInit ==
    html_text \in ExtractDocs /\ extract_ret = NoMetadata /\ extract_pc = "call"

ExtractCall ==
    /\ extract_pc = "call"
    /\ extract_ret' = extract_basic_metadata(html_text)
    /\ extract_pc' = "done"
    /\ UNCHANGED <<html_text, exceptExtract>>

ExtractNext == ExtractCall

(***************************************************************************)
(* news_sources.enrich_with_html_fallback                                  *)
(*                                                                         *)
(* fetch_url is the callee: what it returns is drawn from FetchResults.    *)
(* raw_text is NoText (None: every attempt failed), EmptyText ("": an      *)
(* empty body) or a document.                                              *)
(***************************************************************************)

NoText == [kind |-> "none"]
EmptyText == [kind |-> "empty"]

\* bool(fetched.get("raw_text"))
HasText(raw_text) == raw_text.kind \notin {"none", "empty"}

\* The documents a fetch may bring back during enrichment.
EnrichDocs == {Html(" Title ", None, "Desc", None),
               Html(None, None, None, None)}

FetchResults == {NoText, EmptyText} \cup EnrichDocs

\* An off-by-one budget: one enrichment too many.
BudgetLeft_inclusive(count, max_fallback) == count <= max_fallback

\* `count < max_fallback`
BudgetLeft(count, max_fallback) == count < max_fallback

\* The condition of line 179.
WantsFallback(a, count, max_fallback) ==
    /\ ~Truthy(Get(a, "headline")) \/ ~Truthy(Get(a, "summary"))
    /\ Truthy(Get(a, "source_url"))
    /\ BudgetLeft(count, max_fallback)

\* The page's metadata written over whatever the article holds.
FillFromMeta_overwrite(a, meta) ==
    Put(Put(a, "headline", meta.title), "summary",
        Or(meta.description, meta.evidence_snippet))

\* Lines 182-184: the article after its fields are filled from the page.
FillFromMeta(a, meta) ==
    LET h == Or(Get(a, "headline"), meta.title)
        withH == Put(a, "headline", h)
    IN Put(withH, "summary",
           Or(Or(Get(a, "summary"), meta.description), meta.evidence_snippet))

\* One turn of the for loop on article enr_i.
EnrichLoopStep ==
    /\ enr_pc = "loop"
    /\ enr_i <= Len(enr_articles)
    /\ LET a == enr_articles[enr_i] IN
         IF WantsFallback(a, enr_count, enr_max)
         THEN \E raw_text \in FetchResults :
                 /\ enr_fetches' = Append(enr_fetches, <<enr_i, HasText(raw_text)>>)
                 /\ IF HasText(raw_text)
                    THEN /\ enr_articles' =
                              [enr_articles EXCEPT
                                 ![enr_i] = FillFromMeta(a, extract_basic_metadata(raw_text))]
                         /\ enr_count' = enr_count + 1
                    ELSE UNCHANGED <<enr_articles, enr_count>>
         ELSE UNCHANGED <<enr_articles, enr_count, enr_fetches>>
    /\ enr_i' = enr_i + 1
    /\ UNCHANGED <<enr_input, enr_max, enr_pc, exceptEnrich>>

\* `return enriched`
EnrichReturn ==
    /\ enr_pc = "loop"
    /\ enr_i > Len(enr_articles)
    /\ enr_pc' = "done"
    /\ UNCHANGED <<enr_input, enr_articles, enr_max, enr_i, enr_count, enr_fetches,
                   exceptEnrich>>

EnrichIdle ==
    /\ enr_input = <<>> /\ enr_articles = <<>> /\ enr_max = 0 /\ enr_i = 1
    /\ enr_count = 0 /\ enr_fetches = <<>> /\ enr_pc = "idle"

\* A normalized news item, as a caller of enrich_with_html_fallback holds it.
NewsItem(h, s, u) == [headline |-> h, summary |-> s, source_url |-> u]

\* Complete, without headline, without summary, and bare with no URL.
ItemKinds == {NewsItem("H", "S", "u"), NewsItem(None, "S", "u"),
              NewsItem("H", "", "u"), NewsItem(None, None, None)}

MaxArticles == 3
MaxFallback == 2

RECURSIVE SeqsUpTo(_, _)
\* Every sequence over S of length at most n.
SeqsUpTo(S, n) ==
    IF n = 0 THEN {<<>>}
    ELSE LET shorter == SeqsUpTo(S, n - 1)
         IN shorter \cup {Append(q, x) : q \in {r \in shorter : Len(r) = n - 1}, x \in S}

EnrichInit ==
    /\ enr_input \in SeqsUpTo(ItemKinds, MaxArticles)
    /\ enr_articles = enr_input
    /\ enr_max \in 0..MaxFallback
    /\ enr_i = 1
    /\ enr_count = 0
    /\ enr_fetches = <<>>
    /\ enr_pc = "loop"

(***************************************************************************)
(* news_sources: the result cache                                          *)
(***************************************************************************)

Digits == {"0", "1", "2", "3", "4", "5", "6", "7", "8", "9"}

\* str.isalnum() of one character.
IsAlnum(c) ==
    \/ c \in Digits
    \/ \E k \in 1..26 : c = UpperLetters[k] \/ c = LowerLetters[k]

\* `c if c.isalnum() or c in keep else "_"`
KeepOrUnderscore(c) == IF IsAlnum(c) \/ c \in {" ", ".", "_"} THEN c ELSE "_"

RECURSIVE KeepChars(_)
\* "".join(c if c.isalnum() or c in keep else "_" for c in name)
KeepChars(s) ==
    IF s = "" THEN ""
    ELSE KeepOrUnderscore(SubSeq(s, 1, 1)) \o KeepChars(SubSeq(s, 2, Len(s)))

RECURSIVE ReplaceSpaces(_)
\* s.replace(" ", "_")
ReplaceSpaces(s) ==
    IF s = "" THEN ""
    ELSE (IF SubSeq(s, 1, 1) = " " THEN "_" ELSE SubSeq(s, 1, 1))
             \o ReplaceSpaces(SubSeq(s, 2, Len(s)))

FileNameLen == 180

_sanitize_filename(name) ==
    Prefix(ReplaceSpaces(Strip(KeepChars(name))), FileNameLen)

\* The companies asked about.
CompanyNames == {"Acme Inc.", "Acme/Inc."}

CacheFiles == {_sanitize_filename(n) : n \in CompanyNames}

\* written_for remembers the name whose _save_cache call wrote the file.
NoFile == [exists |-> FALSE, text |-> <<>>, mtime |-> 0, written_for |-> ""]

\* The keys of a normalized news item, in the order line 223 writes them.
NewsKeys == <<"headline", "summary", "source_url", "published", "source_name",
              "fetched", "provenance">>

\* json.dumps of a str-or-None value: null, or the quoted string.
JsonValue(v) == IF v = None THEN <<"null">> ELSE <<"string", v>>

\* json.dumps(payload): a list of objects, each a list of key/value pairs.
json_dumps(payload) ==
    [i \in 1..Len(payload) |->
        [k \in 1..Len(NewsKeys) |-> <<NewsKeys[k], JsonValue(payload[i][NewsKeys[k]])>>]]

\* json.loads(text)
json_loads(text) ==
    [i \in 1..Len(text) |->
        [key \in {text[i][k][1] : k \in 1..Len(text[i])} |->
            LET pair == text[i][CHOOSE k \in 1..Len(text[i]) : text[i][k][1] = key]
            IN IF pair[2][1] = "null" THEN None ELSE pair[2][2]]]

ttl_hours == 24

\* `datetime.utcnow() - mtime > timedelta(hours=ttl_hours)`
Expired(age, ttl) == age > ttl

\* What _load_cache returns: [found, payload]; found is FALSE for None.
_load_cache(name) ==
    LET fn == cache[_sanitize_filename(name)] IN
    IF ~fn.exists THEN [found |-> FALSE, payload |-> <<>>]
    ELSE IF Expired(now - fn.mtime, ttl_hours) THEN [found |-> FALSE, payload |-> <<>>]
    ELSE IF disk = "read_fails" THEN [found |-> FALSE, payload |-> <<>>]
    ELSE [found |-> TRUE, payload |-> json_loads(fn.text)]

\* The cache directory after _save_cache(name, payload).
_save_cache(name, payload) ==
    [cache EXCEPT ![_sanitize_filename(name)] =
        [exists |-> TRUE, text |-> json_dumps(payload), mtime |-> now,
         written_for |-> name]]

(***************************************************************************)
(* news_sources: the provider adapters                                     *)
(***************************************************************************)

\* An article as the three adapters build it (lines 70-77, 112-119, 149-156).
RawArticle(t, u, s, p) ==
    [title |-> t, url |-> u, source |-> "wire", snippet |-> s, published |-> p,
     raw |-> "item"]

\* What a provider may hold: a complete article and one without a title.
ProviderPool == {RawArticle("T", "u", "S", "2024-01-02"),
                 RawArticle(None, "u", "S", None)}

MaxResults == 2

\* What a provider answers: any list, also one longer than what was asked.
ProviderAnswers == SeqsUpTo(ProviderPool, MaxResults + 1)

\* candidates[:max_results], and [] when the request failed.
AdapterResult(candidates, quota) == SubSeq(candidates, 1, Min(Len(candidates), quota))

(***************************************************************************)
(* news_sources.fetch_company_news_multi                                   *)
(***************************************************************************)

\* dateutil's parse(...).isoformat() on the dates of the pool.
IsoDates == [d \in {"2024-01-02"} |-> "2024-01-02T00:00:00"]

normalize_date(dt_str) ==
    IF ~Truthy(dt_str) THEN None
    ELSE IF dt_str \in DOMAIN IsoDates THEN IsoDates[dt_str]
    ELSE dt_str

\* One entry of norm (lines 223-231).
NormalizeItem(a) ==
    [headline |-> Or(Get(a, "title"), Get(a, "headline")),
     summary |-> Or(Get(a, "snippet"), Get(a, "summary")),
     source_url |-> Or(Get(a, "url"), Get(a, "source_url")),
     published |-> normalize_date(Get(a, "published")),
     source_name |-> Get(a, "source"),
     fetched |-> ToString(now),
     provenance |-> Or(Get(a, "raw"), "{}")]

\* `for a in articles[:max_results]: norm.append(...)`
NormalizeAll(arts, m) == [i \in 1..Min(Len(arts), m) |-> NormalizeItem(arts[i])]

RECURSIVE EnrichFrom(_, _, _, _, _)
\* enrich_with_html_fallback from article i on, with the fetch results given
\* per article: [articles, fetches].
EnrichFrom(arts, i, count, max_fallback, results) ==
    IF i > Len(arts) THEN [articles |-> arts, fetches |-> <<>>]
    ELSE IF WantsFallback(arts[i], count, max_fallback)
    THEN LET got == HasText(results[i])
             filled == IF got
                       THEN [arts EXCEPT ![i] =
                               FillFromMeta(arts[i], extract_basic_metadata(results[i]))]
                       ELSE arts
             rest == EnrichFrom(filled, i + 1, IF got THEN count + 1 ELSE count,
                                max_fallback, results)
         IN [articles |-> rest.articles, fetches |-> <<i>> \o rest.fetches]
    ELSE EnrichFrom(arts, i + 1, count, max_fallback, results)

NewsFallbackBudget == 3

\* The articles a pass may fetch a page for, whatever the budget.
FallbackCandidates(arts) == {i \in 1..Len(arts) : WantsFallback(arts[i], 0, 1)}

\* A tier given the original quota again instead of what is still missing.
RemainingQuota_original(m, collected) == m

\* `max_results - len(articles)`
RemainingQuota(m, collected) == m - collected

\* Enrichment moved behind normalization.
NextStep_normalize_first(pc) ==
    CASE pc = "check" -> "serpapi"
      [] pc = "serpapi" -> "bing"
      [] pc = "bing" -> "gdelt"
      [] pc = "gdelt" -> "normalize"
      [] pc = "normalize" -> "enrich"
      [] pc = "enrich" -> "save"
      [] pc = "save" -> "return"

\* The statements of fetch_company_news_multi in the order of the text.
NextStep(pc) ==
    CASE pc = "check" -> "serpapi"
      [] pc = "serpapi" -> "bing"
      [] pc = "bing" -> "gdelt"
      [] pc = "gdelt" -> "enrich"
      [] pc = "enrich" -> "normalize"
      [] pc = "normalize" -> "save"
      [] pc = "save" -> "return"

NewsCall(name, m, uc) ==
    /\ news_pc = "idle"
    /\ company_name' = name
    /\ max_results' = m
    /\ use_cache' = uc
    /\ news_pc' = IF uc THEN "check" ELSE NextStep("check")
    /\ UNCHANGED <<now, cache, articles, norm, news_ret, calls, exceptNews>>

\* Lines 201-204.
NewsCacheCheck ==
    /\ news_pc = "check"
    /\ LET cached == _load_cache(company_name) IN
         /\ calls' = Append(calls, <<"_load_cache", 0, 0>>)
         /\ IF cached.found /\ cached.payload # <<>>
            THEN news_ret' = cached.payload /\ news_pc' = "return"
            ELSE news_ret' = news_ret /\ news_pc' = NextStep(news_pc)
    /\ UNCHANGED <<now, cache, company_name, max_results, use_cache, articles, norm,
                   exceptNews>>

\* Line 207.
NewsSerpApi ==
    /\ news_pc = "serpapi"
    /\ \E candidates \in ProviderAnswers :
          LET got == AdapterResult(candidates, max_results) IN
          /\ articles' = got
          /\ calls' = Append(calls, <<"fetch_news_serpapi", max_results, Len(got)>>)
    /\ news_pc' = NextStep(news_pc)
    /\ UNCHANGED <<now, cache, company_name, max_results, use_cache, norm, news_ret,
                   exceptNews>>

\* Lines 210-211.
NewsBing ==
    /\ news_pc = "bing"
    /\ IF Len(articles) < max_results
       THEN \E candidates \in ProviderAnswers :
               LET quota == RemainingQuota(max_results, Len(articles))
                   got == AdapterResult(candidates, quota)
               IN /\ articles' = articles \o got
                  /\ calls' = Append(calls, <<"fetch_news_bing", quota, Len(got)>>)
       ELSE UNCHANGED <<articles, calls>>
    /\ news_pc' = NextStep(news_pc)
    /\ UNCHANGED <<now, cache, company_name, max_results, use_cache, norm, news_ret,
                   exceptNews>>

\* Lines 214-215.
NewsGdelt ==
    /\ news_pc = "gdelt"
    /\ IF Len(articles) < max_results
       THEN \E candidates \in ProviderAnswers :
               LET quota == RemainingQuota(max_results, Len(articles))
                   got == AdapterResult(candidates, quota)
               IN /\ articles' = articles \o got
                  /\ calls' = Append(calls, <<"fetch_news_gdelt", quota, Len(got)>>)
       ELSE UNCHANGED <<articles, calls>>
    /\ news_pc' = NextStep(news_pc)
    /\ UNCHANGED <<now, cache, company_name, max_results, use_cache, norm, news_ret,
                   exceptNews>>

\* Line 218.
NewsEnrich ==
    /\ news_pc = "enrich"
    /\ \E results \in [FallbackCandidates(articles) -> FetchResults] :
          LET pass == EnrichFrom(articles, 1, 0, NewsFallbackBudget, results) IN
          /\ articles' = pass.articles
          /\ calls' = Append(calls, <<"enrich_with_html_fallback", Len(articles), 0>>)
                        \o [k \in 1..Len(pass.fetches) |->
                               <<"fetch_url", pass.fetches[k], 0>>]
    /\ news_pc' = NextStep(news_pc)
    /\ UNCHANGED <<now, cache, company_name, max_results, use_cache, norm, news_ret,
                   exceptNews>>

\* Lines 221-231.
NewsNormalize ==
    /\ news_pc = "normalize"
    /\ norm' = NormalizeAll(articles, max_results)
    /\ calls' = Append(calls, <<"normalize", Len(articles), Len(norm')>>)
    /\ news_pc' = NextStep(news_pc)
    /\ UNCHANGED <<now, cache, company_name, max_results, use_cache, articles, news_ret,
                   exceptNews>>

\* Lines 233-236.
NewsSave ==
    /\ news_pc = "save"
    /\ ~(use_cache /\ disk = "write_fails")
    /\ IF use_cache
       THEN /\ cache' = _save_cache(company_name, norm)
            /\ calls' = Append(calls, <<"_save_cache", Len(norm), 0>>)
       ELSE UNCHANGED <<cache, calls>>
    /\ news_ret' = norm
    /\ news_pc' = NextStep(news_pc)
    /\ UNCHANGED <<now, company_name, max_results, use_cache, articles, norm, exceptNews>>

\* The caller has the value; the locals of the call are gone.
NewsReturn ==
    /\ news_pc = "return"
    /\ news_pc' = "idle"
    /\ company_name' = "" /\ max_results' = 0 /\ use_cache' = FALSE
    /\ articles' = <<>> /\ norm' = <<>> /\ news_ret' = <<>> /\ calls' = <<>>
    /\ UNCHANGED <<now, cache, exceptNews>>

MaxClock == 25

\* The hours at which the clock is read: 0, and from the TTL on.
ClockValues == {0, 1} \cup (ttl_hours..MaxClock)

\* Time passes between two calls.
Tick ==
    /\ news_pc = "idle"
    /\ \E t \in ClockValues : t > now /\ now' = t
    /\ UNCHANGED <<cache, company_name, max_results, use_cache, articles, norm,
                   news_ret, calls, news_pc, exceptNews>>

NewsIdle ==
    /\ now = 0 /\ cache = [f \in CacheFiles |-> NoFile]
    /\ company_name = "" /\ max_results = 0 /\ use_cache = FALSE
    /\ articles = <<>> /\ norm = <<>> /\ news_ret = <<>> /\ calls = <<>>
    /\ news_pc = "idle"

NewsInit == NewsIdle

\* Lines 233-234 when write_text raises: the exception leaves _save_cache and
\* fetch_company_news_multi; the file is as it was.
NewsSaveFailed ==
    /\ news_pc = "save"
    /\ use_cache /\ disk = "write_fails"
    /\ calls' = Append(calls, <<"_save_cache", Len(norm), 0>>)
    /\ news_pc' = "raised"
    /\ UNCHANGED <<now, cache, company_name, max_results, use_cache, articles, norm,
                   news_ret, exceptNews>>

\* The caller has the exception; the locals of the call are gone.
NewsAbort ==
    /\ news_pc = "raised"
    /\ news_pc' = "idle"
    /\ company_name' = "" /\ max_results' = 0 /\ use_cache' = FALSE
    /\ articles' = <<>> /\ norm' = <<>> /\ news_ret' = <<>> /\ calls' = <<>>
    /\ UNCHANGED <<now, cache, exceptNews>>

DiskStates == {"ok", "read_fails", "write_fails"}

DiskIdle == disk = "ok"

DiskInit == disk \in DiskStates

\* Between two calls the file system breaks, or is mended.
DiskFault(state) ==
    /\ news_pc = "idle"
    /\ state # disk
    /\ disk' = state
    /\ UNCHANGED exceptDisk

\* fetch_company_news_multi on a file system that may fail.
DiskNext ==
    \/ \E state \in DiskStates : DiskFault(state)
    \/ NewsSaveFailed
    \/ NewsAbort

NewsNext ==
    \/ \E name \in CompanyNames, m \in 1..MaxResults, uc \in BOOLEAN : NewsCall(name, m, uc)
    \/ NewsCacheCheck
    \/ NewsSerpApi
    \/ NewsBing
    \/ NewsGdelt
    \/ NewsEnrich
    \/ NewsNormalize
    \/ NewsSave
    \/ NewsReturn
    \/ Tick

(***************************************************************************)
(* clinical_trials.normalize_trials                                        *)
(*                                                                         *)
(* A study is what the registry's JSON holds of it. A list-valued field    *)
(* is [present, items]: the key may be missing, or there with an empty     *)
(* list.                                                                   *)
(***************************************************************************)

Absent == [present |-> FALSE, items |-> <<>>]
ListOf(items) == [present |-> TRUE, items |-> items]

Study(nct, title, status, phases, conditions, interventions) ==
    [is_dict |-> TRUE, nctId |-> nct, briefTitle |-> title, overallStatus |-> status,
     phases |-> phases, conditions |-> conditions, interventions |-> interventions]

\* An entry of "studies" that is no mapping.
NotAStudy ==
    [is_dict |-> FALSE, nctId |-> None, briefTitle |-> None, overallStatus |-> None,
     phases |-> Absent, conditions |-> Absent, interventions |-> Absent]

RECURSIVE Join(_, _)
\* sep.join(parts)
Join(parts, sep) ==
    IF parts = <<>> THEN ""
    ELSE IF Len(parts) = 1 THEN parts[1]
    ELSE parts[1] \o sep \o Join(Tail(parts), sep)

\* str(x) inside an f-string.
Str(x) == IF x = None THEN "None" ELSE x

SnippetCap == 150

_build_snippet(study) ==
    LET conditions == IF study.conditions.present THEN study.conditions.items ELSE <<>>
        interventions == IF study.interventions.present
                         THEN study.interventions.items ELSE <<>>
        parts == (IF Truthy(study.briefTitle) THEN <<study.briefTitle>> ELSE <<>>)
                 \o (IF conditions # <<>>
                     THEN <<"Condition: " \o Str(conditions[1])>> ELSE <<>>)
                 \o (IF interventions # <<>>
                     THEN <<"Intervention: " \o Str(interventions[1])>> ELSE <<>>)
    IN Prefix(Join(parts, " | "), SnippetCap)

\* `.get(key, default)[0]` raises IndexError on a list that is there and empty.
FirstRaises(field) == field.present /\ field.items = <<>>

\* `.get(key, [default])[0]`
FirstOr(field, default) == IF field.present THEN field.items[1] ELSE default

\* Lines 116-126 raise on this study.
StudyRaises(study) ==
    \/ FirstRaises(study.phases)
    \/ FirstRaises(study.conditions)
    \/ FirstRaises(study.interventions)

\* Lines 119-131.
Trial(study, variant) ==
    [nct |-> study.nctId,
     status |-> IF study.overallStatus = None THEN "Unknown" ELSE study.overallStatus,
     phase |-> _normalize_phase(FirstOr(study.phases, "Unknown")),
     condition |-> FirstOr(study.conditions, None),
     intervention |-> FirstOr(study.interventions, None),
     source_url |-> "https://clinicaltrials.gov/study/" \o study.nctId,
     fetched |-> ToString(now),
     evidence_snippet |-> _build_snippet(study),
     matched_variant |-> variant]

\* A mapping with an nct id.
HasNctId(study) == study.is_dict /\ Truthy(study.nctId)

\* `if not nct or nct in seen: continue`
SkipStudy(study, seen) == ~HasNctId(study) \/ study.nctId \in seen

RECURSIVE StudiesLoop(_, _, _, _)
\* The inner loop from study i on. acc is [raised, seen, candidates].
StudiesLoop(studies, i, variant, acc) ==
    IF acc.raised \/ i > Len(studies) THEN acc
    ELSE LET s == studies[i] IN
         IF SkipStudy(s, acc.seen) THEN StudiesLoop(studies, i + 1, variant, acc)
         ELSE IF StudyRaises(s)
         THEN [raised |-> TRUE, seen |-> acc.seen \cup {s.nctId},
               candidates |-> acc.candidates]
         ELSE StudiesLoop(studies, i + 1, variant,
                          [raised |-> FALSE, seen |-> acc.seen \cup {s.nctId},
                           candidates |-> Append(acc.candidates, Trial(s, variant))])

RECURSIVE PairsLoop(_, _, _)
\* The outer loop from item j on; an item is <<variant, studies>>.
PairsLoop(pairs, j, acc) ==
    IF acc.raised \/ j > Len(pairs) THEN acc
    ELSE PairsLoop(pairs, j + 1, StudiesLoop(pairs[j][2], 1, pairs[j][1], acc))

\* Lines 135-137.
CountsByPhase(candidates) ==
    [ph \in {candidates[k].phase : k \in 1..Len(candidates)} |->
        Cardinality({k \in 1..Len(candidates) : candidates[k].phase = ph})]

\* raw is [kind |-> "dict", studies] or [kind |-> "list", items]. The result
\* is [raised, company_name, candidates, counts_by_phase]; when raised, the
\* exception leaves normalize_trials and nothing is returned.
normalize_trials(raw, name) ==
    LET pairs == IF raw.kind = "dict" THEN << <<name, raw.studies>> >> ELSE raw.items
        acc == PairsLoop(pairs, 1, [raised |-> FALSE, seen |-> {}, candidates |-> <<>>])
    IN IF acc.raised
       THEN [raised |-> TRUE, company_name |-> name, candidates |-> <<>>,
             counts_by_phase |-> <<>>]
       ELSE [raised |-> FALSE, company_name |-> name, candidates |-> acc.candidates,
             counts_by_phase |-> CountsByPhase(acc.candidates)]

\* The studies a query may bring back: two records of the same trial that
\* differ, a trial with every optional field missing, a record without an
\* id, an entry that is no mapping, and a trial whose phase list is empty.
StudyPool ==
    {Study("NCT1", "Title", "Recruiting", ListOf(<<"Phase 1">>), ListOf(<<"Flu">>),
           ListOf(<<"DrugA">>)),
     Study("NCT1", None, "Completed", ListOf(<<"PHASE3">>), Absent, Absent),
     Study("NCT2", None, None, Absent, Absent, Absent),
     Study(None, "Title", None, ListOf(<<"Phase 2">>), Absent, Absent),
     NotAStudy,
     Study("NCT3", None, None, ListOf(<<>>), Absent, Absent)}

\* The name variants of the company, in the order they are queried.
NameVariants == <<"Acme", "Acme Inc.", "Acme Corp">>

ResolvedName == "Acme Inc."

MaxStudies == 3

\* Lists of (variant, raw_json): the studies split over the variants in order.
\* The ways to cut n studies into one run per variant.
Cuts(n) ==
    {c \in [1..(Len(NameVariants) + 1) -> 0..n] :
        /\ c[1] = 0
        /\ c[Len(NameVariants) + 1] = n
        /\ \A v \in 1..Len(NameVariants) : c[v] <= c[v + 1]}

\* The (variant, raw_json) pairs that hold the studies cut at c.
PairsOf(studies, c) ==
    [v \in 1..Len(NameVariants) |->
        <<NameVariants[v],
          IF c[v] = c[v + 1] THEN <<>> ELSE SubSeq(studies, c[v] + 1, c[v + 1])>>]

TrialInputs ==
    UNION {{[kind |-> "list", items |-> PairsOf(studies, c)] : c \in Cuts(Len(studies))} :
              studies \in SeqsUpTo(StudyPool, MaxStudies)}

TrialsIdle ==
    /\ raw_results = [kind |-> "list", items |-> <<>>]
    /\ trials_pc = "idle"
    /\ trials_ret = normalize_trials([kind |-> "list", items |-> <<>>], "")

TrialsInit ==
    /\ raw_results \in TrialInputs
    /\ trials_pc = "call"
    /\ trials_ret = normalize_trials([kind |-> "list", items |-> <<>>], "")

NormalizeTrialsCall ==
    /\ trials_pc = "call"
    /\ trials_ret' = normalize_trials(raw_results, ResolvedName)
    /\ trials_pc' = IF trials_ret'.raised THEN "raised" ELSE "done"
    /\ UNCHANGED <<raw_results, exceptTrials>>

TrialsNext == NormalizeTrialsCall

(***************************************************************************)
(* pipeline_runner.build_profiles: the clinical trials section             *)
(***************************************************************************)

\* A cell that pandas read as missing.
NaN == "<NaN>"

notna(x) == x # NaN

\* What a name_variants cell may hold: nothing, text that is no Python
\* literal, or the literal of a list of names.
VariantCells ==
    {[kind |-> "nan", names |-> <<>>], [kind |-> "garbage", names |-> <<>>]}
    \cup {[kind |-> "list", names |-> SubSeq(NameVariants, 1, n)] :
             n \in 0..Len(NameVariants)}

\* Lines 34-39.
ParseVariants(cell, resolved_name) ==
    IF cell.kind = "list" THEN cell.names ELSE <<resolved_name>>

\* What the registry sends back for a query: records of trials only.
QueryPool == {s \in StudyPool : HasNctId(s)}

MaxFetched == 2

\* The "pipeline" value of the except branch, lines 54-56.
EmptyPipeline == [candidates |-> <<>>, counts_by_phase |-> <<>>]

PipelineIdle ==
    /\ variants_str = [kind |-> "nan", names |-> <<>>]
    /\ variants = <<>>
    /\ variant_i = 0
    /\ raw_trials = <<>>
    /\ trial_queries = <<>>
    /\ normalized_trials = EmptyPipeline
    /\ pipeline_pc = "idle"

PipelineInit ==
    /\ variants_str \in VariantCells
    /\ variants = <<>>
    /\ variant_i = 0
    /\ raw_trials = <<>>
    /\ trial_queries = <<>>
    /\ normalized_trials = EmptyPipeline
    /\ pipeline_pc = "parse"

\* Lines 34-44: the variants are parsed and the loop starts.
PipelineParse ==
    /\ pipeline_pc = "parse"
    /\ variants' = ParseVariants(variants_str, ResolvedName)
    /\ variant_i' = 1
    /\ pipeline_pc' = "fetch"
    /\ UNCHANGED <<variants_str, raw_trials, trial_queries, normalized_trials,
                   exceptPipeline>>

\* Lines 45-49: fetch_trials(variant) returned a dict; its studies, if any,
\* are appended.
PipelineFetched(studies) ==
    /\ pipeline_pc = "fetch"
    /\ variant_i <= Len(variants)
    /\ Len(raw_trials) + Len(studies) <= MaxFetched
    /\ raw_trials' = raw_trials \o studies
    /\ trial_queries' = Append(trial_queries,
                               [variant |-> variants[variant_i], ok |-> TRUE,
                                studies |-> studies])
    /\ variant_i' = variant_i + 1
    /\ UNCHANGED <<variants_str, variants, normalized_trials, pipeline_pc,
                   exceptPipeline>>

\* Lines 50-51: fetch_trials(variant) raised; the variant is passed over.
PipelineFetchFailed ==
    /\ pipeline_pc = "fetch"
    /\ variant_i <= Len(variants)
    /\ trial_queries' = Append(trial_queries,
                               [variant |-> variants[variant_i], ok |-> FALSE,
                                studies |-> <<>>])
    /\ variant_i' = variant_i + 1
    /\ UNCHANGED <<variants_str, variants, raw_trials, normalized_trials,
                   pipeline_pc, exceptPipeline>>

\* The loop is over.
PipelineFetchDone ==
    /\ pipeline_pc = "fetch"
    /\ variant_i > Len(variants)
    /\ pipeline_pc' = "normalize"
    /\ UNCHANGED <<variants_str, variants, variant_i, raw_trials, trial_queries,
                   normalized_trials, exceptPipeline>>

\* Lines 52-56: normalize_trials on everything collected; if it raises, the
\* section is the empty one.
PipelineNormalize ==
    /\ pipeline_pc = "normalize"
    /\ LET r == normalize_trials([kind |-> "dict", studies |-> raw_trials],
                                 ResolvedName)
       IN normalized_trials' =
              IF r.raised THEN EmptyPipeline
              ELSE [candidates |-> r.candidates,
                    counts_by_phase |-> r.counts_by_phase]
    /\ pipeline_pc' = "done"
    /\ UNCHANGED <<variants_str, variants, variant_i, raw_trials, trial_queries,
                   exceptPipeline>>

PipelineNext ==
    \/ PipelineParse
    \/ \E studies \in SeqsUpTo(QueryPool, MaxFetched) : PipelineFetched(studies)
    \/ PipelineFetchFailed
    \/ PipelineFetchDone
    \/ PipelineNormalize

(***************************************************************************)
(* edgar_financials                                                        *)
(***************************************************************************)

Forms == <<"10-K", "10-Q">>

\* count, the filings kept per form.
FilingsPerForm == 2

MaxFolders == 2

\* The n folders of one form on disk after the download, named 1 to n, as
\* `sorted(os.listdir(base_path), reverse=True)` lists them.
Folders(n) == [k \in 1..n |-> n + 1 - k]

\* What the filing service does in one call: whether the downloader can be
\* built, and per form either a failed download or the number of folders.
EdgarWorlds ==
    {[downloader |-> "raise", forms |-> [f \in 1..Len(Forms) |-> -1]]}
    \cup {[downloader |-> "ok", forms |-> fs] :
             fs \in [1..Len(Forms) -> (-1)..MaxFolders]}

\* Lines 28-34.
Filing(form, folder, t, c) ==
    [form |-> form,
     filing_date |-> ToString(folder),
     file_path |-> "sec-edgar-filings/" \o Or(t, c) \o "/" \o form \o "/"
                   \o ToString(folder) \o "/full-submission.txt",
     source_url |-> "https://www.sec.gov/Archives/edgar/data/" \o Or(c, t) \o "/"
                    \o ToString(folder) \o "/index.html",
     fetched |-> ToString(now)]

RECURSIVE FormsLoop(_, _, _, _, _)
\* Lines 20-36 from form f on; acc is [events, filings].
FormsLoop(f, t, c, world, acc) ==
    IF f > Len(Forms) THEN acc
    ELSE LET n == world.forms[f]
             kept == Min(IF n < 0 THEN 0 ELSE n, FilingsPerForm)
             got == [k \in 1..kept |-> Filing(Forms[f], Folders(n)[k], t, c)]
         IN FormsLoop(f + 1, t, c, world,
                      [events |-> Append(acc.events, "get " \o Forms[f]),
                       filings |-> acc.filings \o got])

\* The result is [raised, events, filings].
fetch_edgar_filings(t, c, world) ==
    IF ~Truthy(t) /\ ~Truthy(c)
    THEN [raised |-> FALSE, events |-> <<>>, filings |-> <<>>]
    ELSE IF world.downloader = "raise"
    THEN [raised |-> TRUE, events |-> <<"Downloader">>, filings |-> <<>>]
    ELSE LET acc == FormsLoop(1, t, c, world,
                              [events |-> <<"Downloader">>, filings |-> <<>>])
         IN [raised |-> FALSE, events |-> acc.events, filings |-> acc.filings]

\* A provenance entry that does not say where the filing is from.
Provenance_without_source(f) ==
    [source_url |-> None,
     source_type |-> "edgar",
     fetched |-> f.fetched,
     evidence_snippet |-> f.form \o " filing on " \o f.filing_date]

\* Lines 58-63.
Provenance(f) ==
    [source_url |-> f.source_url,
     source_type |-> "edgar",
     fetched |-> f.fetched,
     evidence_snippet |-> f.form \o " filing on " \o f.filing_date]

normalize_financials(fs, is_public) ==
    IF ~is_public THEN [public |-> FALSE, filings |-> <<>>, provenance |-> <<>>]
    ELSE IF fs = <<>> THEN [public |-> TRUE, filings |-> <<>>, provenance |-> <<>>]
    ELSE [public |-> TRUE, filings |-> fs,
          provenance |-> [k \in 1..Len(fs) |-> Provenance(fs[k])]]

(***************************************************************************)
(* pipeline_runner.build_profiles: the financials section                  *)
(***************************************************************************)

\* The test of line 60 left out: every row is taken for a listed company.
HasIdentifier_always(t, c) == TRUE

\* `pd.notna(ticker) or pd.notna(cik)`
HasIdentifier(t, c) == notna(t) \/ notna(c)

\* `x if pd.notna(x) else None`
NoneIfNaN(x) == IF notna(x) THEN x ELSE None

NoFinancials == [public |-> FALSE, filings |-> <<>>, provenance |-> <<>>]

FinancialIdle ==
    /\ ticker = NaN
    /\ cik = NaN
    /\ filings = <<>>
    /\ normalized_financials = NoFinancials
    /\ edgar_events = <<>>
    /\ financial_pc = "idle"

\* Either build_profiles reaches the financials of a row, or
\* fetch_edgar_filings and then normalize_financials are called on their own.
FinancialInit ==
    /\ \/ /\ financial_pc = "section"
          /\ ticker \in {NaN, "ACME"}
          /\ cik \in {NaN, "1234"}
       \/ /\ financial_pc = "fetch"
          /\ ticker \in {None, "", "ACME"}
          /\ cik \in {None, "", "1234"}
    /\ filings = <<>>
    /\ normalized_financials = NoFinancials
    /\ edgar_events = <<>>

\* Lines 58-72.
FinancialSection(world) ==
    /\ financial_pc = "section"
    /\ IF HasIdentifier(ticker, cik)
       THEN LET r == fetch_edgar_filings(NoneIfNaN(ticker), NoneIfNaN(cik), world)
            IN /\ edgar_events' = <<"fetch_edgar_filings">> \o r.events
               /\ filings' = r.filings
               /\ normalized_financials' =
                      IF r.raised
                      THEN [public |-> HasIdentifier(ticker, cik),
                            filings |-> <<>>, provenance |-> <<>>]
                      ELSE normalize_financials(r.filings, TRUE)
       ELSE /\ edgar_events' = edgar_events
            /\ filings' = filings
            /\ normalized_financials' = normalize_financials(<<>>, FALSE)
    /\ financial_pc' = "done"
    /\ UNCHANGED <<ticker, cik, exceptFinancial>>

\* fetch_edgar_filings(ticker, cik) called on its own.
FetchEdgarFilingsCall(world) ==
    /\ financial_pc = "fetch"
    /\ LET r == fetch_edgar_filings(ticker, cik, world)
       IN /\ edgar_events' = <<"fetch_edgar_filings">> \o r.events
          /\ filings' = r.filings
          /\ financial_pc' = IF r.raised THEN "raised" ELSE "fetched"
    /\ UNCHANGED <<ticker, cik, normalized_financials, exceptFinancial>>

\* normalize_financials(filings, is_public) called on what was fetched.
NormalizeFinancialsCall(is_public) ==
    /\ financial_pc = "fetched"
    /\ normalized_financials' = normalize_financials(filings, is_public)
    /\ financial_pc' = "done"
    /\ UNCHANGED <<ticker, cik, filings, edgar_events, exceptFinancial>>

FinancialNext ==
    \/ \E world \in EdgarWorlds : FinancialSection(world)
    \/ \E world \in EdgarWorlds : FetchEdgarFilingsCall(world)
    \/ \E is_public \in BOOLEAN : NormalizeFinancialsCall(is_public)

(***************************************************************************)
(* fetcher.fetch_url                                                       *)
(***************************************************************************)

Urls == {"https://a.example/1", "https://b.example/2"}

\* What a server may answer with.
Pages == {"<html>old</html>", "<html>new</html>"}

\* hashlib.sha256(url.encode()).hexdigest()[:16], on the URLs above.
url_hash(u) == IF u = "https://a.example/1" THEN "5f0e6c1d9a3b7e42"
               ELSE "c81b02a7d4e6f905"

ArchivePath(u) == "archive/" \o url_hash(u) \o ".html"

ArchivePaths == {ArchivePath(u) : u \in Urls}

MaxRetries == 3

\* Lines 22-27.
CachedResult(path, text) ==
    [raw_text |-> text, archive_path |-> path, fetched_at |-> ToString(now),
     from_cache |-> TRUE]

\* Lines 44-49.
FetchedResult(path, text) ==
    [raw_text |-> text, archive_path |-> path, fetched_at |-> ToString(now),
     from_cache |-> FALSE]

\* Lines 57-63.
FailureResult(retries) ==
    [raw_text |-> None, archive_path |-> None, fetched_at |-> ToString(now),
     from_cache |-> FALSE,
     error |-> "Failed after " \o ToString(retries) \o " attempts"]

NoResult == [raw_text |-> None]

\* A failed request and the handler of lines 50-55.
AfterFailure(events) == events \o <<"get", "sleep">>

FetchIdle ==
    /\ archive = [p \in ArchivePaths |-> None]
    /\ url = None
    /\ fetch_use_cache = FALSE
    /\ max_retries = 0
    /\ attempt = 0
    /\ fetch_events = <<>>
    /\ fetch_ret = NoResult
    /\ fetched = [p \in ArchivePaths |-> {}]
    /\ fetch_pc = "idle"

FetchInit == FetchIdle

\* fetch_url(u, use_cache=uc, max_retries=retries)
FetchCall(u, uc, retries) ==
    /\ fetch_pc = "idle"
    /\ url' = u
    /\ fetch_use_cache' = uc
    /\ max_retries' = retries
    /\ attempt' = 0
    /\ fetch_events' = <<>>
    /\ fetch_ret' = NoResult
    /\ fetch_pc' = "check"
    /\ UNCHANGED <<archive, fetched, exceptFetch>>

\* Lines 21-27: the archived copy is returned, or the loop is entered.
FetchArchiveCheck ==
    /\ fetch_pc = "check"
    /\ IF fetch_use_cache /\ archive[ArchivePath(url)] # None
       THEN /\ fetch_ret' = CachedResult(ArchivePath(url), archive[ArchivePath(url)])
            /\ fetch_pc' = "done"
       ELSE /\ fetch_ret' = fetch_ret
            /\ fetch_pc' = "attempt"
    /\ UNCHANGED <<archive, url, fetch_use_cache, max_retries, attempt,
                   fetch_events, fetched, exceptFetch>>

\* Lines 36-49: the request succeeds; the text is archived and returned.
FetchAttemptOk(text) ==
    /\ fetch_pc = "attempt"
    /\ attempt < max_retries
    /\ fetch_events' = Append(fetch_events, "get")
    /\ archive' = [archive EXCEPT ![ArchivePath(url)] = text]
    /\ fetch_ret' = FetchedResult(ArchivePath(url), text)
    /\ fetched' = [fetched EXCEPT ![ArchivePath(url)] = @ \cup {text}]
    /\ fetch_pc' = "done"
    /\ UNCHANGED <<url, fetch_use_cache, max_retries, attempt, exceptFetch>>

\* Lines 36-38 and 50-55: the request fails in transport or with an HTTP
\* error status; the handler sleeps and the loop goes on.
FetchAttemptFailed ==
    /\ fetch_pc = "attempt"
    /\ attempt < max_retries
    /\ fetch_events' = AfterFailure(fetch_events)
    /\ attempt' = attempt + 1
    /\ UNCHANGED <<archive, url, fetch_use_cache, max_retries, fetch_ret,
                   fetched, fetch_pc, exceptFetch>>

\* Lines 57-63: the loop is exhausted.
FetchGiveUp ==
    /\ fetch_pc = "attempt"
    /\ attempt >= max_retries
    /\ fetch_ret' = FailureResult(max_retries)
    /\ fetch_pc' = "done"
    /\ UNCHANGED <<archive, url, fetch_use_cache, max_retries, attempt,
                   fetch_events, fetched, exceptFetch>>

\* The caller has the result; the next call may start.
FetchReturn ==
    /\ fetch_pc = "done"
    /\ fetch_pc' = "idle"
    /\ UNCHANGED <<archive, url, fetch_use_cache, max_retries, attempt,
                   fetch_events, fetch_ret, fetched, exceptFetch>>

\* The steps inside a call.
FetchStep ==
    \/ FetchArchiveCheck
    \/ \E text \in Pages : FetchAttemptOk(text)
    \/ FetchAttemptFailed
    \/ FetchGiveUp

FetchNext ==
    \/ \E u \in Urls, uc \in BOOLEAN, retries \in 0..MaxRetries :
          FetchCall(u, uc, retries)
    \/ FetchStep
    \/ FetchReturn

(***************************************************************************)
(* The provider adapters                                                   *)
(*                                                                         *)
(* A world is what surrounds one call: whether the API key is set, and     *)
(* what the request does: a transport error, an HTTP error status, a body  *)
(* that is not the JSON expected, or an answer.                            *)
(***************************************************************************)

ReplyErrors == {"transport", "http", "malformed"}

Reply(kind, items) == [kind |-> kind, items |-> items]

NewsWorlds ==
    {[key |-> k, reply |-> r] :
        k \in BOOLEAN,
        r \in {Reply(e, <<>>) : e \in ReplyErrors}
              \cup {Reply("ok", items) : items \in ProviderAnswers}}

Returned(requests, result) ==
    [raised |-> FALSE, requests |-> requests, result |-> result]

Raised(requests) == [raised |-> TRUE, requests |-> requests, result |-> <<>>]

\* The try/except of lines 63-82, 105-124 and 142-170: the request, and []
\* on whatever goes wrong.
GuardedSearch(m, reply) ==
    IF reply.kind = "ok" THEN Returned(1, AdapterResult(reply.items, m))
    ELSE Returned(1, <<>>)

fetch_news_serpapi(m, world) ==
    IF ~world.key THEN Returned(0, <<>>) ELSE GuardedSearch(m, world.reply)

fetch_news_bing(m, world) ==
    IF ~world.key THEN Returned(0, <<>>) ELSE GuardedSearch(m, world.reply)

\* GDELT asks for no key.
fetch_news_gdelt(m, world) == GuardedSearch(m, world.reply)

\* What the registry's body may be: a dict with "studies", a bare list, or
\* some other JSON value.
TrialShapes == {"dict", "list", "other"}

TrialWorlds ==
    {[key |-> TRUE, reply |-> Reply(e, <<>>)] : e \in ReplyErrors}
    \cup {[key |-> TRUE, reply |-> Reply(shape, items)] :
             shape \in TrialShapes, items \in SeqsUpTo(QueryPool, 1)}

\* Lines 55-74: nothing is caught; the result is the dict returned.
fetch_trials(world) ==
    IF world.reply.kind \in ReplyErrors THEN Raised(1)
    ELSE IF world.reply.kind = "other" THEN Returned(1, <<>>)
    ELSE Returned(1, world.reply.items)

\* fetch_edgar_filings(ticker, cik) in the bookkeeping of the other adapters.
FilingsSearch(t, c, world) ==
    LET r == fetch_edgar_filings(t, c, world)
    IN [raised |-> r.raised, requests |-> Len(r.events), result |-> r.filings]

NewsAdapters == {"fetch_news_serpapi", "fetch_news_bing", "fetch_news_gdelt"}

\* The calls: which adapter, with which quota or identifiers, in which world.
AdapterInputs ==
    {[name |-> n, max_results |-> m] : n \in NewsAdapters, m \in 1..MaxResults}
    \cup {[name |-> "fetch_trials", company_name |-> ResolvedName]}
    \cup {[name |-> "fetch_edgar_filings", ticker |-> t, cik |-> c] :
             t \in {None, "ACME"}, c \in {None, "1234"}}

WorldsOf(call) ==
    IF call.name \in NewsAdapters THEN NewsWorlds
    ELSE IF call.name = "fetch_trials" THEN TrialWorlds
    ELSE EdgarWorlds

\* The adapter of the call, applied.
Apply(call, world) ==
    CASE call.name = "fetch_news_serpapi" -> fetch_news_serpapi(call.max_results, world)
      [] call.name = "fetch_news_bing" -> fetch_news_bing(call.max_results, world)
      [] call.name = "fetch_news_gdelt" -> fetch_news_gdelt(call.max_results, world)
      [] call.name = "fetch_trials" -> fetch_trials(world)
      [] call.name = "fetch_edgar_filings" -> FilingsSearch(call.ticker, call.cik, world)

NoCall == [name |-> "none"]

AdapterIdle ==
    /\ adapter = NoCall
    /\ adapter_world = [key |-> FALSE]
    /\ adapter_ret = Returned(0, <<>>)
    /\ adapter_pc = "idle"

AdapterInit ==
    /\ adapter \in AdapterInputs
    /\ adapter_world \in WorldsOf(adapter)
    /\ adapter_ret = Returned(0, <<>>)
    /\ adapter_pc = "call"

AdapterCall ==
    /\ adapter_pc = "call"
    /\ adapter_ret' = Apply(adapter, adapter_world)
    /\ adapter_pc' = IF adapter_ret'.raised THEN "raised" ELSE "returned"
    /\ UNCHANGED <<adapter, adapter_world, exceptAdapter>>

AdapterNext == AdapterCall

(***************************************************************************)
(* pipeline_runner.build_profiles: the loop over the rows                  *)
(*                                                                         *)
(* Each of the three sections of a row is computed to [raised, value]:     *)
(* raised says that an exception reached the section's outer try, value    *)
(* is what the section's variable holds at that point.                     *)
(***************************************************************************)

\* No handler: the exception goes on to the caller.
Catch_nothing(r, default) == r

\* try ... except Exception: the section gets its default.
Catch(r, default) ==
    [raised |-> FALSE, value |-> IF r.raised THEN default ELSE r.value]

RECURSIVE CollectTrials(_, _, _)
\* Lines 45-52: the studies of the variants from v on; a query that raises
\* is passed over.
CollectTrials(names, worlds, v) ==
    IF v > Len(names) THEN <<>>
    ELSE LET r == fetch_trials(worlds[v])
         IN (IF r.raised THEN <<>> ELSE r.result)
            \o CollectTrials(names, worlds, v + 1)

\* Lines 45-53.
TrialsSection(names, worlds, resolved_name) ==
    LET r == normalize_trials([kind |-> "dict",
                               studies |-> CollectTrials(names, worlds, 1)],
                              resolved_name)
    IN [raised |-> r.raised,
        value |-> [candidates |-> r.candidates,
                   counts_by_phase |-> r.counts_by_phase]]

\* Lines 60-67.
FinancialsSection(t, c, world) ==
    IF HasIdentifier(t, c)
    THEN LET r == fetch_edgar_filings(NoneIfNaN(t), NoneIfNaN(c), world)
         IN [raised |-> r.raised, value |-> normalize_financials(r.filings, TRUE)]
    ELSE [raised |-> FALSE, value |-> normalize_financials(<<>>, FALSE)]

\* Lines 70-72.
FinancialsDefault(t, c) ==
    [public |-> HasIdentifier(t, c), filings |-> <<>>, provenance |-> <<>>]

\* What fetch_url does for one item of the news loop: it returns a result,
\* or an exception leaves it.
PageRaises == [kind |-> "raises"]

\* Lines 84-91: the item after its fields are filled from the page.
FillItem(item, meta) ==
    LET h == Put(item, "headline", Or(Get(item, "headline"), meta.title))
        hs == Put(h, "summary", Or(Get(item, "summary"), meta.description))
        hsf == Put(hs, "fetched", ToString(now))
        hsfc == Put(hsf, "extraction_confidence", meta.extraction_confidence)
    IN Put(hsfc, "evidence_snippet", meta.evidence_snippet)

\* Lines 79-95 for one item.
ProfileItem(item, page) ==
    LET wants == (~Truthy(Get(item, "headline")) \/ ~Truthy(Get(item, "summary")))
                 /\ Truthy(Get(item, "source_url"))
        filled == IF wants /\ HasText(page)
                  THEN FillItem(item, extract_basic_metadata(page)) ELSE item
    IN Put(filled, "published", normalize_date(Get(filled, "published")))

\* The item makes the loop call fetch_url, and fetch_url raises.
ItemRaises(item, page) ==
    /\ ~Truthy(Get(item, "headline")) \/ ~Truthy(Get(item, "summary"))
    /\ Truthy(Get(item, "source_url"))
    /\ page = PageRaises

RECURSIVE NewsLoop(_, _, _)
\* Lines 79-95 from item i on.
NewsLoop(items, pages, i) ==
    IF i > Len(items) THEN [raised |-> FALSE, value |-> items]
    ELSE IF ItemRaises(items[i], pages[i]) THEN [raised |-> TRUE, value |-> items]
    ELSE NewsLoop([items EXCEPT ![i] = ProfileItem(items[i], pages[i])], pages, i + 1)

\* Lines 75-95. world is [aggregator, items, pages]: whether
\* fetch_company_news_multi returns or raises, what it returns, and what
\* fetch_url does for each item.
NewsSection(world) ==
    IF world.aggregator = "raises" THEN [raised |-> TRUE, value |-> <<>>]
    ELSE NewsLoop(world.items, world.pages, 1)

\* `resolved_name.replace(" ", "_").replace("/", "_")`
SafeName(name) ==
    LET Swap(c) == IF c \in {" ", "/"} THEN "_" ELSE c
        F[k \in 0..Len(name)] ==
            IF k = 0 THEN "" ELSE F[k - 1] \o Swap(SubSeq(name, k, k))
    IN F[Len(name)]

OutPath(name) == "profiles/" \o SafeName(name) \o "_profile.json"

\* Lines 100-111.
Profile(row, names, pipeline, financial, news) ==
    [input_name |-> row.input_name,
     canonical |-> [resolved_name |-> row.resolved_name, ticker |-> row.ticker,
                    cik |-> row.cik, website |-> row.website,
                    name_variants |-> names],
     pipeline |-> pipeline,
     financial |-> financial,
     news |-> news]

\* The body of the loop for one row, lines 27-121: [raised, profile].
ProcessRow(row) ==
    LET names == ParseVariants(row.name_variants, row.resolved_name)
        t == Catch(TrialsSection(names, row.world.trials, row.resolved_name),
                   EmptyPipeline)
        f == Catch(FinancialsSection(row.ticker, row.cik, row.world.filings),
                   FinancialsDefault(row.ticker, row.cik))
        n0 == NewsSection(row.world.news)
        n == Catch(n0, n0.value)
    IN [raised |-> t.raised \/ f.raised \/ n.raised,
        profile |-> Profile(row, names, t.value, f.value, n.value)]

\* What the registry does for the two variants of a row: it returns the
\* same trial to both and one more, or fails for both, or returns a study
\* on which normalize_trials raises.
TrialCases ==
    [ok |-> <<[key |-> TRUE, reply |-> Reply("dict",
                  <<Study("NCT1", "Title", "Recruiting", ListOf(<<"Phase 1">>),
                          ListOf(<<"Flu">>), ListOf(<<"DrugA">>))>>)],
              [key |-> TRUE, reply |-> Reply("list",
                  <<Study("NCT1", None, "Completed", ListOf(<<"PHASE3">>), Absent,
                          Absent),
                    Study("NCT2", None, None, Absent, Absent, Absent)>>)]>>,
     fetch_fails |-> <<[key |-> TRUE, reply |-> Reply("transport", <<>>)],
                       [key |-> TRUE, reply |-> Reply("http", <<>>)]>>,
     normalize_raises |->
         <<[key |-> TRUE, reply |-> Reply("dict",
               <<Study("NCT3", None, None, ListOf(<<>>), Absent, Absent)>>)],
           [key |-> TRUE, reply |-> Reply("dict",
               <<Study("NCT2", None, None, Absent, Absent, Absent)>>)]>>]

\* The identifiers of the row and what the filing service does.
FilingCases ==
    [ok |-> [ticker |-> "ACME", cik |-> NaN,
             world |-> [downloader |-> "ok", forms |-> <<1, -1>>]],
     downloader_raises |-> [ticker |-> "ACME", cik |-> "1234",
                            world |-> [downloader |-> "raise", forms |-> <<-1, -1>>]]]

\* An item as fetch_company_news_multi returns it, with or without headline.
ReturnedItem(h) ==
    [headline |-> h, summary |-> "S", source_url |-> "u",
     published |-> "2024-01-02T00:00:00", source_name |-> "wire",
     fetched |-> "0", provenance |-> "item"]

\* What the news services do: a full item and one whose page fills the
\* headline; the aggregator raising; fetch_url raising on the second item.
NewsCases ==
    [ok |-> [aggregator |-> "returns",
             items |-> <<ReturnedItem("H"), ReturnedItem(None)>>,
             pages |-> <<NoText, Html(" Title ", None, "Desc", None)>>],
     raises |-> [aggregator |-> "raises", items |-> <<>>, pages |-> <<>>],
     page_raises |-> [aggregator |-> "returns",
                      items |-> <<ReturnedItem(None), ReturnedItem(None)>>,
                      pages |-> <<Html("Title", None, None, None), PageRaises>>]]

\* A row's case in each of the three domains.
RowCases == [trials : DOMAIN TrialCases, filings : DOMAIN FilingCases,
             news : DOMAIN NewsCases]

\* The k-th row of the CSV, in the given case.
Row(k, case) ==
    [input_name |-> "input " \o ToString(k),
     resolved_name |-> "Company " \o ToString(k),
     ticker |-> FilingCases[case.filings].ticker,
     cik |-> FilingCases[case.filings].cik,
     website |-> NaN,
     name_variants |-> [kind |-> "list", names |-> <<"Co", "Co Inc.">>],
     world |-> [trials |-> TrialCases[case.trials],
                filings |-> FilingCases[case.filings].world,
                news |-> NewsCases[case.news]]]

MaxBatch == 2

\* A batch is the cases of its rows, in the order of the CSV.
Batches == UNION {[1..n -> RowCases] : n \in 0..MaxBatch}

BatchIdle ==
    /\ batch = <<>>
    /\ row_i = 0
    /\ batch_results = <<>>
    /\ profile_files = <<>>
    /\ batch_pc = "idle"

BatchInit ==
    /\ batch \in Batches
    /\ row_i = 1
    /\ batch_results = <<>>
    /\ profile_files = <<>>
    /\ batch_pc = "rows"

\* One turn of the loop of line 26: the profile of row row_i is built,
\* saved and appended, unless an exception leaves the loop.
BuildProfile ==
    /\ batch_pc = "rows"
    /\ row_i <= Len(batch)
    /\ LET r == ProcessRow(Row(row_i, batch[row_i]))
       IN IF r.raised
          THEN /\ batch_pc' = "raised"
               /\ UNCHANGED <<row_i, batch_results, profile_files>>
          ELSE /\ batch_results' = Append(batch_results, r.profile)
               /\ profile_files' =
                      Append(profile_files,
                             OutPath(Row(row_i, batch[row_i]).resolved_name))
               /\ row_i' = row_i + 1
               /\ batch_pc' = batch_pc
    /\ UNCHANGED <<batch, exceptBatch>>

\* Line 123.
BuildProfilesReturn ==
    /\ batch_pc = "rows"
    /\ row_i > Len(batch)
    /\ batch_pc' = "done"
    /\ UNCHANGED <<batch, row_i, batch_results, profile_files, exceptBatch>>

BatchNext == BuildProfile \/ BuildProfilesReturn

(***************************************************************************)
(* Specifications                                                          *)
(***************************************************************************)

InitPhase == PhaseInit /\ EnrichIdle /\ NewsIdle /\ TrialsIdle
    /\ PipelineIdle /\ FinancialIdle /\ FetchIdle /\ AdapterIdle /\ DiskIdle
    /\ BatchIdle /\ ExtractIdle

SpecPhase == InitPhase /\ [][PhaseNext]_vars

EnrichNext == EnrichLoopStep \/ EnrichReturn

InitEnrich == EnrichInit /\ PhaseIdle /\ NewsIdle /\ TrialsIdle
    /\ PipelineIdle /\ FinancialIdle /\ FetchIdle /\ AdapterIdle /\ DiskIdle
    /\ BatchIdle /\ ExtractIdle

InitNews == NewsInit /\ PhaseIdle /\ EnrichIdle /\ TrialsIdle
    /\ PipelineIdle /\ FinancialIdle /\ FetchIdle /\ AdapterIdle /\ DiskIdle
    /\ BatchIdle /\ ExtractIdle

SpecNews == InitNews /\ [][NewsNext]_vars

InitPipeline == PipelineInit /\ PhaseIdle /\ EnrichIdle /\ NewsIdle
    /\ TrialsIdle /\ FinancialIdle /\ FetchIdle /\ AdapterIdle /\ DiskIdle
    /\ BatchIdle /\ ExtractIdle

SpecPipeline == InitPipeline /\ [][PipelineNext]_vars

InitFinancial == FinancialInit /\ PhaseIdle /\ EnrichIdle /\ NewsIdle
    /\ TrialsIdle /\ PipelineIdle /\ FetchIdle /\ AdapterIdle /\ DiskIdle
    /\ BatchIdle /\ ExtractIdle

SpecFinancial == InitFinancial /\ [][FinancialNext]_vars

InitFetch == FetchInit /\ PhaseIdle /\ EnrichIdle /\ NewsIdle /\ TrialsIdle
    /\ PipelineIdle /\ FinancialIdle /\ AdapterIdle /\ DiskIdle /\ BatchIdle
    /\ ExtractIdle

SpecFetch == InitFetch /\ [][FetchNext]_vars

\* A call in progress is not abandoned: the interpreter runs it on.
SpecFetchLive == SpecFetch /\ WF_vars(FetchStep)

InitAdapter == AdapterInit /\ PhaseIdle /\ EnrichIdle /\ NewsIdle
    /\ TrialsIdle /\ PipelineIdle /\ FinancialIdle /\ FetchIdle /\ DiskIdle
    /\ BatchIdle /\ ExtractIdle

SpecAdapter == InitAdapter /\ [][AdapterNext]_vars

InitDisk == DiskInit /\ PhaseIdle /\ EnrichIdle /\ NewsIdle /\ TrialsIdle
    /\ PipelineIdle /\ FinancialIdle /\ FetchIdle /\ AdapterIdle
    /\ BatchIdle /\ ExtractIdle

SpecDisk == InitDisk /\ [][NewsNext \/ DiskNext]_vars

InitBatch == BatchInit /\ PhaseIdle /\ EnrichIdle /\ NewsIdle /\ TrialsIdle
    /\ PipelineIdle /\ FinancialIdle /\ FetchIdle /\ AdapterIdle /\ DiskIdle
    /\ ExtractIdle

SpecBatch == InitBatch /\ [][BatchNext]_vars

InitExtract == ExtractInit /\ PhaseIdle /\ EnrichIdle /\ NewsIdle
    /\ TrialsIdle /\ PipelineIdle /\ FinancialIdle /\ FetchIdle
    /\ AdapterIdle /\ DiskIdle /\ BatchIdle

SpecExtract == InitExtract /\ [][ExtractNext]_vars

InitTrials == TrialsInit /\ PhaseIdle /\ EnrichIdle /\ NewsIdle
    /\ PipelineIdle /\ FinancialIdle /\ FetchIdle /\ AdapterIdle /\ DiskIdle
    /\ BatchIdle /\ ExtractIdle

SpecTrials == InitTrials /\ [][TrialsNext]_vars

SpecEnrich == InitEnrich /\ [][EnrichNext]_vars

(***************************************************************************)
(* The news aggregator and its cache                                       *)
(***************************************************************************)

AdapterNames == {"fetch_news_serpapi", "fetch_news_bing", "fetch_news_gdelt"}

\* The calls of the invocation in progress that went to a provider adapter.
AdapterCalls == SelectSeq(calls, LAMBDA c : c[1] \in AdapterNames)

\* The invocation in progress has written the cache.
HasSaved == \E k \in 1..Len(calls) : calls[k][1] = "_save_cache"

\* The invocation in progress is past its cache check.
PastCheck == news_pc \in {"serpapi", "bing", "gdelt", "enrich", "normalize", "save", "return"}

\* The cache file of the company asked about, as the invocation found it.
EntryFound == cache[_sanitize_filename(company_name)]

\* C1: once a call with use_cache has stored its result R, of any content and
\* also with no items, a second call with use_cache within the TTL window
\* returns a payload identical to R and invokes no provider adapter.
C1_CacheRoundTrip ==
    (/\ PastCheck /\ use_cache /\ ~HasSaved
     /\ EntryFound.exists
     /\ now - EntryFound.mtime < ttl_hours)
        => /\ news_pc = "return"
           /\ json_dumps(news_ret) = EntryFound.text
           /\ AdapterCalls = <<>>

\* C2: an entry stored at t0 is returned by _load_cache only while
\* now - t0 < ttl; from now - t0 = ttl on the read is a miss and
\* fetch_company_news_multi runs a fresh provider sequence.
C2_CacheExpiry ==
    /\ \A name \in CompanyNames :
          LET fn == cache[_sanitize_filename(name)] IN
          fn.exists /\ now - fn.mtime >= ttl_hours => ~_load_cache(name).found
    /\ (/\ PastCheck /\ use_cache /\ ~HasSaved
        /\ EntryFound.exists
        /\ now - EntryFound.mtime >= ttl_hours)
          => \/ news_pc = "serpapi"
             \/ AdapterCalls # <<>>

\* The quota and the number of items returned of the k-th adapter call.
QuotaOf(k) == AdapterCalls[k][2]
ReturnedBy(k) == AdapterCalls[k][3]

\* C3: on a miss the tiers are invoked in the order SerpApi, Bing, GDELT, each
\* at most once; tier 1 with quota max_results; tier 2 exactly when tier 1
\* returned k < max_results items, with quota max_results - k; tier 3 exactly
\* when the count c after tier 2 is below max_results, with quota
\* max_results - c; no tier once the count has reached max_results.
C3_FallbackQuota ==
    LET n == Len(AdapterCalls)
        names == [k \in 1..n |-> AdapterCalls[k][1]]
        k1 == ReturnedBy(1)
        c2 == IF n >= 2 THEN ReturnedBy(1) + ReturnedBy(2) ELSE ReturnedBy(1)
    IN /\ names = SubSeq(<<"fetch_news_serpapi", "fetch_news_bing", "fetch_news_gdelt">>, 1, n)
       /\ news_pc \in {"bing", "gdelt", "enrich", "normalize", "save"} =>
             n >= 1 /\ QuotaOf(1) = max_results
       /\ news_pc \in {"gdelt", "enrich", "normalize", "save"} =>
             /\ n >= 2 <=> k1 < max_results
             /\ n >= 2 => QuotaOf(2) = max_results - k1
       /\ news_pc \in {"enrich", "normalize", "save"} =>
             /\ n = 3 <=> c2 < max_results
             /\ n = 3 => QuotaOf(3) = max_results - c2
       /\ \A k \in 1..n : ReturnedBy(k) <= QuotaOf(k)
       /\ \A k \in 2..n : QuotaOf(k) >= 1

\* SerpApi returns one of two, Bing nothing, and GDELT is asked for the one
\* still missing.
C3_Witness ==
    /\ news_pc = "enrich"
    /\ max_results = 2
    /\ AdapterCalls = << <<"fetch_news_serpapi", 2, 1>>, <<"fetch_news_bing", 1, 0>>,
                         <<"fetch_news_gdelt", 1, 1>> >>

\* The steps of the call in progress, the page fetches of the enrichment left out.
StepNames ==
    LET steps == SelectSeq(calls, LAMBDA c : c[1] # "fetch_url")
    IN [k \in 1..Len(steps) |-> steps[k][1]]

StepRank(op) ==
    CASE op = "_load_cache" -> 1
      [] op = "fetch_news_serpapi" -> 2
      [] op = "fetch_news_bing" -> 3
      [] op = "fetch_news_gdelt" -> 4
      [] op = "enrich_with_html_fallback" -> 5
      [] op = "normalize" -> 6
      [] op = "_save_cache" -> 7

CountOf(op) == Cardinality({k \in 1..Len(StepNames) : StepNames[k] = op})

RECURSIVE SumReturned(_)
SumReturned(k) == IF k = 0 THEN 0 ELSE ReturnedBy(k) + SumReturned(k - 1)

\* C4: on a cache miss the steps come in the order cache check, tiered fetch,
\* enrichment, normalization, truncation, cache write; enrichment and
\* normalization run once, on the combined candidates of all tiers; the cache
\* write is the last step before returning, and what is returned is the
\* normalization of every candidate cut to max_results.
C4_StepOrder ==
    /\ \A i, j \in 1..Len(StepNames) :
          i < j => StepRank(StepNames[i]) < StepRank(StepNames[j])
    /\ (news_pc = "return" /\ use_cache /\ HasSaved) =>
          /\ StepNames[1] = "_load_cache"
          /\ CountOf("fetch_news_serpapi") = 1
          /\ CountOf("enrich_with_html_fallback") = 1
          /\ CountOf("normalize") = 1
          /\ StepNames[Len(StepNames)] = "_save_cache"
          /\ \A k \in 1..Len(calls) :
                calls[k][1] \in {"enrich_with_html_fallback", "normalize"}
                    => calls[k][2] = SumReturned(Len(AdapterCalls))
          /\ news_ret = Prefix([i \in 1..Len(articles) |-> NormalizeItem(articles[i])],
                               max_results)
          /\ EntryFound.text = json_dumps(news_ret)
          /\ EntryFound.mtime = now

\* A miss that went through two tiers and wrote two items to the cache.
C4_Witness ==
    /\ news_pc = "return" /\ use_cache /\ HasSaved
    /\ StepNames = <<"_load_cache", "fetch_news_serpapi", "fetch_news_bing",
                     "enrich_with_html_fallback", "normalize", "_save_cache">>
    /\ Len(news_ret) = 2

(***************************************************************************)
(* The enrichment pass                                                     *)
(***************************************************************************)

\* An article that lacks a headline or a summary and carries a usable URL.
IncompleteWithUrl(a) ==
    /\ ~Truthy(Get(a, "headline")) \/ ~Truthy(Get(a, "summary"))
    /\ Truthy(Get(a, "source_url"))

EnrichCandidates == {i \in 1..Len(enr_input) : IncompleteWithUrl(enr_input[i])}

\* The articles whose fetch brought content back, and so were enriched.
EnrichedSet == {enr_fetches[k][1] : k \in {j \in 1..Len(enr_fetches) : enr_fetches[j][2]}}

ModifiedSet == {i \in 1..Len(enr_input) : enr_articles[i] # enr_input[i]}

AllFetchesGotContent == \A k \in 1..Len(enr_fetches) : enr_fetches[k][2]

\* C5: the pass modifies at most max_fallback articles; when every fetch
\* brings content back, exactly min(n, max_fallback) of the n incomplete
\* articles with a URL are enriched, and they are the first of them in arrival
\* order; an article reached once the budget is spent passes through
\* unchanged; the output has the length and the order of the input.
C5_EnrichmentBudget ==
    enr_pc = "done" =>
        /\ Cardinality(ModifiedSet) <= enr_max
        /\ AllFetchesGotContent =>
              /\ Cardinality(EnrichedSet) = Min(Cardinality(EnrichCandidates), enr_max)
              /\ EnrichedSet \subseteq EnrichCandidates
              /\ \A i \in EnrichedSet : \A j \in EnrichCandidates \ EnrichedSet : i < j
        /\ \A i \in 1..Len(enr_input) :
              Cardinality({j \in EnrichedSet : j < i}) >= enr_max
                  => enr_articles[i] = enr_input[i]
        /\ Len(enr_articles) = Len(enr_input)
        /\ \A i \in 1..Len(enr_input) :
              /\ Get(enr_articles[i], "source_url") = Get(enr_input[i], "source_url")
              /\ i \notin EnrichedSet => enr_articles[i] = enr_input[i]

\* Three incomplete articles and a budget of two: the first two are enriched
\* and the third passes through, still incomplete.
C5_Witness ==
    /\ enr_pc = "done"
    /\ enr_max = 2
    /\ EnrichCandidates = {1, 2, 3}
    /\ AllFetchesGotContent
    /\ EnrichedSet = {1, 2}
    /\ ModifiedSet = {1, 2}
    /\ IncompleteWithUrl(enr_articles[3])

\* C6: _normalize_phase is total over the table's labels and over empty or
\* missing input, returns one of the eight categories, ignores case, and
\* classifies the compound labels "Phase 1/Phase 2" and "Phase 2/Phase 3" as
\* phase1_2 and phase2_3.
C6_PhaseClassification ==
    phase_pc = "done" =>
        /\ phase_ret \in PhaseEnum
        /\ raw_phase # None => phase_ret = _normalize_phase(Upper(raw_phase))
        /\ raw_phase # None /\ Lower(raw_phase) = "phase 1/phase 2"
              => phase_ret = "phase1_2"
        /\ raw_phase # None /\ Lower(raw_phase) = "phase 2/phase 3"
              => phase_ret = "phase2_3"

(***************************************************************************)
(* Trial deduplication                                                     *)
(***************************************************************************)

RECURSIVE TagAll(_, _)
\* Each study of a pair with the pair's variant.
TagAll(variant, studies) ==
    IF studies = <<>> THEN <<>>
    ELSE <<[variant |-> variant, study |-> Head(studies)]>>
         \o TagAll(variant, Tail(studies))

RECURSIVE InInputOrder(_)
\* The studies of a list of (variant, raw_json) pairs, in input order.
InInputOrder(pairs) ==
    IF pairs = <<>> THEN <<>>
    ELSE TagAll(pairs[1][1], pairs[1][2]) \o InInputOrder(Tail(pairs))

\* The positions in the input where an nct id occurs for the first time.
FirstOccurrences(flat) ==
    {i \in 1..Len(flat) :
        /\ HasNctId(flat[i].study)
        /\ \A j \in 1..(i - 1) :
              ~(HasNctId(flat[j].study) /\ flat[j].study.nctId = flat[i].study.nctId)}

\* The output holds, in input order, the first occurrence of every nct id
\* with the variant of its pair, and nothing else.
OneRecordPerNctId(flat, candidates) ==
    /\ Len(candidates) = Cardinality(FirstOccurrences(flat))
    /\ \A i \in FirstOccurrences(flat) :
          LET k == Cardinality({j \in FirstOccurrences(flat) : j <= i})
          IN /\ candidates[k].nct = flat[i].study.nctId
             /\ candidates[k].matched_variant = flat[i].variant
             /\ candidates[k] = Trial(flat[i].study, flat[i].variant)

\* C7: once normalize_trials has been called on a list of (variant, raw_json)
\* pairs there is a candidates list, and it holds exactly one record per
\* distinct nct id of the input: the first occurrence in input order, with the
\* variant of the pair it came in as matched_variant.
C7_TrialDedup ==
    trials_pc \in {"done", "raised"} =>
        /\ trials_pc = "done"
        /\ OneRecordPerNctId(InInputOrder(raw_results.items), trials_ret.candidates)

\* Whenever normalize_trials returns, its output is deduplicated as C7 says.
DedupWhenReturned ==
    trials_pc = "done" =>
        OneRecordPerNctId(InInputOrder(raw_results.items), trials_ret.candidates)

\* A duplicate nct id in a later pair has been dropped from a returned list.
DedupWhenReturned_Witness ==
    /\ trials_pc = "done"
    /\ Len(trials_ret.candidates) = 2
    /\ \E i, j \in 1..Len(InInputOrder(raw_results.items)) :
          LET flat == InInputOrder(raw_results.items)
          IN /\ i < j
             /\ HasNctId(flat[i].study) /\ HasNctId(flat[j].study)
             /\ flat[i].study.nctId = flat[j].study.nctId
             /\ flat[i].study # flat[j].study
             /\ flat[i].variant # flat[j].variant

(***************************************************************************)
(* End-to-end trial counts                                                 *)
(***************************************************************************)

\* The nct ids among the studies the variants' queries returned.
QueriedIds ==
    UNION {{trial_queries[q].studies[k].nctId :
               k \in 1..Len(trial_queries[q].studies)} :
              q \in 1..Len(trial_queries)}

RECURSIVE SumOver(_, _)
\* The sum of f over the keys in D.
SumOver(f, D) ==
    IF D = {} THEN 0
    ELSE LET k == CHOOSE k \in D : TRUE IN f[k] + SumOver(f, D \ {k})

\* candidates has n entries and counts_by_phase counts them by phase.
CountsAgree(pipeline, n) ==
    /\ Len(pipeline.candidates) = n
    /\ SumOver(pipeline.counts_by_phase, DOMAIN pipeline.counts_by_phase) = n
    /\ \A k \in 1..Len(pipeline.candidates) :
          pipeline.candidates[k].phase \in DOMAIN pipeline.counts_by_phase
    /\ \A ph \in DOMAIN pipeline.counts_by_phase :
          pipeline.counts_by_phase[ph] =
              Cardinality({k \in 1..Len(pipeline.candidates) :
                              pipeline.candidates[k].phase = ph})

\* C8: when build_profiles is done with a company's trials, pipeline.candidates
\* has as many entries as there are distinct nct ids in what the variants'
\* queries returned, counts_by_phase sums to that number, and each phase's
\* count is the number of candidates of that phase.
C8_EndToEndCounts ==
    pipeline_pc = "done" => CountsAgree(normalized_trials, Cardinality(QueriedIds))

\* A study on which lines 116-126 raise was fetched.
FetchedOneThatRaises == \E k \in 1..Len(raw_trials) : StudyRaises(raw_trials[k])

\* The counts agree whenever normalize_trials returned.
CountsAgreeWhenNormalized ==
    (pipeline_pc = "done" /\ ~FetchedOneThatRaises) =>
        CountsAgree(normalized_trials, Cardinality(QueriedIds))

\* Two variants' queries returned the same trial and it was counted once.
CountsAgreeWhenNormalized_Witness ==
    /\ pipeline_pc = "done"
    /\ ~FetchedOneThatRaises
    /\ Len(raw_trials) = 2
    /\ Len(normalized_trials.candidates) = 1
    /\ \E q, r \in 1..Len(trial_queries) :
          q # r /\ trial_queries[q].studies # <<>> /\ trial_queries[r].studies # <<>>

(***************************************************************************)
(* Financial degraded output                                               *)
(***************************************************************************)

\* C9: the financial section of a company with neither a ticker nor a CIK is
\* exactly {public: false, filings: [], provenance: []} and nothing was
\* downloaded for it; and fetch_edgar_filings called without identifiers
\* returns an empty list without building the downloader.
C9_FinancialDegraded ==
    /\ (financial_pc = "done" /\ ticker = NaN /\ cik = NaN) =>
          /\ normalized_financials =
                 [public |-> FALSE, filings |-> <<>>, provenance |-> <<>>]
          /\ edgar_events = <<>>
    /\ (financial_pc \in {"fetched", "raised", "done"}
           /\ ~Truthy(ticker) /\ ~Truthy(cik)) =>
          /\ financial_pc # "raised"
          /\ filings = <<>>
          /\ edgar_events = <<"fetch_edgar_filings">>

\* build_profiles is done with the financials of a row without identifiers.
C9_Witness == financial_pc = "done" /\ ticker = NaN /\ cik = NaN

\* fetch_edgar_filings has returned from a call without identifiers.
C9_WitnessDirect == financial_pc = "fetched" /\ ticker = None /\ cik = ""

(***************************************************************************)
(* Fetcher retry and failure result                                        *)
(***************************************************************************)

\* How many times e occurs in events.
Occurrences(events, e) == Cardinality({k \in 1..Len(events) : events[k] = e})

\* Every sleep lies between two requests.
SleepsOnlyBetweenAttempts ==
    \A k \in 1..Len(fetch_events) :
        fetch_events[k] = "sleep" =>
            /\ k > 1 /\ fetch_events[k - 1] = "get"
            /\ k < Len(fetch_events) /\ fetch_events[k + 1] = "get"

\* At most max_retries requests, none after a success, and a failure result
\* once all of them have failed.
BoundedRetries ==
    /\ Occurrences(fetch_events, "get") <= max_retries
    /\ fetch_pc \in {"done", "idle"} /\ fetch_ret # NoResult =>
          \/ /\ fetch_ret.from_cache
             /\ fetch_events = <<>>
          \/ /\ ~fetch_ret.from_cache
             /\ fetch_ret.raw_text # None
             /\ fetch_ret.raw_text = archive[ArchivePath(url)]
             /\ Occurrences(fetch_events, "get")
                    = Occurrences(fetch_events, "sleep") + 1
          \/ /\ fetch_ret = FailureResult(max_retries)
             /\ Occurrences(fetch_events, "get") = max_retries

\* C10: a call of fetch_url that misses the archive makes at most max_retries
\* requests, stops at the first that succeeds, sleeps only between two
\* attempts, and when all attempts have failed returns a failure result.
C10_RetryAndFailureResult ==
    /\ BoundedRetries
    /\ fetch_pc = "done" => SleepsOnlyBetweenAttempts

\* All the retries of a call failed and the failure result was returned.
BoundedRetries_Witness ==
    /\ fetch_pc = "done"
    /\ max_retries = MaxRetries
    /\ fetch_ret = FailureResult(max_retries)

\* Every call of fetch_url returns.
FetchTerminates == (fetch_pc = "check") ~> (fetch_pc = "done")

(***************************************************************************)
(* Fetcher read-through hit and archive write-once                         *)
(***************************************************************************)

\* The call in progress asks for the archive and finds an entry for its URL.
ArchiveHit == fetch_use_cache /\ archive[ArchivePath(url)] # None

\* On a hit the archived text is returned at once, with from_cache set, no
\* request, no sleep, and the archive as it was.
HitServedFromArchive ==
    (fetch_pc = "check" /\ ArchiveHit) =>
        /\ fetch_pc' = "done"
        /\ fetch_ret'.from_cache
        /\ fetch_ret'.raw_text = archive[ArchivePath(url)]
        /\ fetch_events' = <<>>
        /\ archive' = archive

\* Once a request for the URL has succeeded, a call with use_cache=True is a
\* hit, and what it returns is what that request brought.
LaterHitSameContent ==
    (fetch_pc = "done" /\ fetch_use_cache /\ fetched[ArchivePath(url)] # {}
        /\ fetch_events = <<>>) =>
        /\ fetch_ret.from_cache
        /\ \A text \in fetched[ArchivePath(url)] : fetch_ret.raw_text = text

\* C11: with use_cache true and an archive entry for the URL, fetch_url returns
\* the archived text with from_cache = true, without request, retry or sleep,
\* and leaves the archive unchanged; and after a successful fetch_url(u) every
\* later fetch_url(u, use_cache=True) is such a hit and returns the same text.
C11_ReadThroughHit == [][HitServedFromArchive]_vars /\ []LaterHitSameContent

\* The hit itself behaves as C11 says, in every call.
HitIsReadThrough == [][HitServedFromArchive]_vars

\* A call with use_cache=True has been served from the archive.
HitIsReadThrough_Witness ==
    fetch_pc = "done" /\ fetch_use_cache /\ fetch_ret # NoResult /\ fetch_ret.from_cache

\* An archive entry, once written, keeps its text.
EntryKept == \A p \in ArchivePaths : archive[p] # None => archive'[p] = archive[p]

\* C12: over any sequence of fetch_url calls the archive has at most one entry
\* per URL fetched, and the text of an existing entry is never changed.
C12_ArchiveWriteOnce == [][EntryKept]_vars

(***************************************************************************)
(* Adapters never raise                                                    *)
(***************************************************************************)

\* The world of the call is one where something goes wrong.
AdapterFails ==
    \/ adapter.name \in NewsAdapters \cup {"fetch_trials"}
       /\ adapter_world.reply.kind \in ReplyErrors
    \/ adapter.name \in {"fetch_news_serpapi", "fetch_news_bing"}
       /\ ~adapter_world.key
    \/ adapter.name = "fetch_edgar_filings"
       /\ (Truthy(adapter.ticker) \/ Truthy(adapter.cik))
       /\ adapter_world.downloader = "raise"

\* The adapter returned; on an error it returned an empty result, and without
\* its key it made no request.
ReturnsEmptyOnError ==
    /\ adapter_pc = "returned"
    /\ AdapterFails => adapter_ret.result = <<>>
    /\ (adapter.name \in {"fetch_news_serpapi", "fetch_news_bing"}
           /\ ~adapter_world.key) => adapter_ret.requests = 0

\* C13: every provider adapter, news, trials and filings, returns, with an
\* empty result on any error, and a news tier without its API key makes no
\* network call.
C13_AdaptersNeverRaise ==
    adapter_pc \in {"returned", "raised"} => ReturnsEmptyOnError

\* The three news adapters are as C13 says.
NewsAdaptersNeverRaise ==
    (adapter_pc \in {"returned", "raised"} /\ adapter.name \in NewsAdapters) =>
        ReturnsEmptyOnError

\* A news adapter has come back from a failed request.
NewsAdaptersNeverRaise_Witness ==
    /\ adapter_pc = "returned"
    /\ adapter.name \in NewsAdapters
    /\ adapter_world.key
    /\ adapter_world.reply.kind \in ReplyErrors

(***************************************************************************)
(* Cache failure degrades, never aborts                                    *)
(***************************************************************************)

\* With an entry in its TTL window that cannot be read, the call goes through
\* the provider tiers as on a miss.
ReadFailureIsMiss ==
    (/\ PastCheck /\ use_cache /\ ~HasSaved
     /\ disk = "read_fails"
     /\ EntryFound.exists
     /\ now - EntryFound.mtime < ttl_hours)
        => \/ news_pc = "serpapi"
           \/ AdapterCalls # <<>>

\* C14: a cache entry that cannot be read makes fetch_company_news_multi
\* behave as on a miss, and a cache write that fails does not make it raise:
\* it still returns the normalized list.
C14_CacheFailureDegrades ==
    /\ ReadFailureIsMiss
    /\ news_pc # "raised"

\* A call found an unreadable entry and has come back from the tiers.
ReadFailureIsMiss_Witness ==
    /\ news_pc = "return" /\ use_cache
    /\ disk = "read_fails"
    /\ EntryFound.exists
    /\ now - EntryFound.mtime < ttl_hours
    /\ AdapterCalls # <<>>

(***************************************************************************)
(* Batch failure isolation                                                 *)
(***************************************************************************)

\* The profile has its five keys, and each section the shape of its domain.
ValidProfile(p) ==
    /\ DOMAIN p = {"input_name", "canonical", "pipeline", "financial", "news"}
    /\ DOMAIN p.pipeline = {"candidates", "counts_by_phase"}
    /\ DOMAIN p.financial = {"public", "filings", "provenance"}
    /\ DOMAIN p.news = 1..Len(p.news)

\* The pipeline section a row has in each case of its trial queries.
PipelineAsExpected(case, pipeline) ==
    IF case = "ok"
    THEN /\ [k \in 1..Len(pipeline.candidates) |-> pipeline.candidates[k].nct]
               = <<"NCT1", "NCT2">>
         /\ pipeline.counts_by_phase = [ph \in {"phase1", "unknown"} |-> 1]
    ELSE pipeline = [candidates |-> <<>>, counts_by_phase |-> <<>>]

\* The financial section a row has in each case of the filing service.
FinancialAsExpected(case, financial) ==
    CASE case = "ok" ->
            /\ financial.public
            /\ Len(financial.filings) = 1 /\ Len(financial.provenance) = 1
            /\ financial.filings[1].form = "10-K"
      [] case = "downloader_raises" ->
            financial = [public |-> TRUE, filings |-> <<>>, provenance |-> <<>>]

\* The news section a row has in each case of the news services: empty when
\* the aggregator raised; when the loop of lines 79-95 was left by an
\* exception, the aggregator's items as far as the loop had come.
NewsAsExpected(case, news) ==
    CASE case = "ok" ->
            /\ Len(news) = 2
            /\ news[1].headline = "H" /\ news[2].headline = "Title"
      [] case = "raises" -> news = <<>>
      [] case = "page_raises" ->
            /\ Len(news) = 2
            /\ news[1].headline = "Title" /\ news[2].headline = None

ServedFromCache == news_pc = "return" /\ use_cache /\ ~HasSaved

\* C16: the cache key is collision-resistant: what a cache read for company X
\* returns was stored by a call for X, never by a call for another name Y.
C16_CacheKeyIsolation ==
    ServedFromCache => EntryFound.written_for = company_name

\* extract_basic_metadata has returned.
Extracted == extract_pc = "done"

\* t is s cut to at most n characters.
Truncated(s, t, n) == Len(t) = Min(Len(s), n) /\ t = SubSeq(s, 1, Len(t))

\* C17: extract_basic_metadata returns for every input, a document the parser
\* throws on included; the confidence is 0.6 exactly when the returned title
\* or description is non-empty, 0.2 exactly when parsing succeeded and both
\* are empty, 0.0 exactly when parsing threw, and then the result has an error
\* detail and null title and description; the evidence snippet is the
\* description cut to 200 characters if there is one, else the title cut to
\* 200 characters, else absent.
C17_ExtractorConfidence ==
    Extracted =>
        LET r == extract_ret
            parsed == html_text.kind = "html"
            content == Truthy(r.title) \/ Truthy(r.description)
        IN /\ r.extraction_confidence = 6 <=> content
           /\ r.extraction_confidence = 2 <=> parsed /\ ~content
           /\ r.extraction_confidence = 0 <=> ~parsed
           /\ ~parsed => r.error # None /\ r.title = None /\ r.description = None
           /\ parsed => r.error = None
           /\ IF Truthy(r.description)
              THEN Truncated(r.description, r.evidence_snippet, SnippetLen)
              ELSE IF Truthy(r.title)
              THEN Truncated(r.title, r.evidence_snippet, SnippetLen)
              ELSE r.evidence_snippet = None

\* A page without a title whose description is longer than a snippet.
C17_Witness ==
    /\ Extracted
    /\ html_text = Html(None, None, LongText, None)
    /\ extract_ret.extraction_confidence = 6
    /\ Len(extract_ret.evidence_snippet) = SnippetLen
    /\ Len(extract_ret.description) > SnippetLen

\* The first of two candidate texts that is non-empty after trimming.
FirstNonEmpty(first, second) ==
    IF first # None /\ Strip(first) # "" THEN Strip(first)
    ELSE IF second # None /\ Strip(second) # "" THEN Strip(second)
    ELSE None

\* v is the candidate chosen; with no candidate, no value.
Chosen(v, candidate) == IF candidate = None THEN ~Truthy(v) ELSE v = candidate

\* C18: the title returned is the first non-empty, after trimming, of the
\* title tag's text and the top-level heading's text, the description the
\* first non-empty of the contents of the "description" and the
\* "og:description" meta tags; an empty or blank first candidate does not
\* keep the second from being used.
C18_FallbackSelection ==
    Extracted /\ html_text.kind = "html" =>
        /\ Chosen(extract_ret.title, FirstNonEmpty(html_text.title_tag, html_text.h1))
        /\ Chosen(extract_ret.description,
                  FirstNonEmpty(html_text.meta_desc, html_text.og_desc))

\* The i-th provenance entry is that of the i-th filing.
ProvenanceOfFiling(prov, f) ==
    prov.source_url = f.source_url /\ prov.fetched = f.fetched

\* C19: every value of normalize_financials has as many provenance entries as
\* filings, the i-th entry with the source_url and fetched time of the i-th
\* filing; when public is false both lists are empty.
C19_ProvenanceCardinality ==
    LET r == normalized_financials IN
    /\ Len(r.provenance) = Len(r.filings)
    /\ \A i \in 1..Len(r.filings) : ProvenanceOfFiling(r.provenance[i], r.filings[i])
    /\ ~r.public => r.filings = <<>> /\ r.provenance = <<>>
    /\ financial_pc = "done" =>
          /\ r.public => r.filings = filings
          /\ ~r.public \/ filings = <<>> => r.filings = <<>>

\* normalize_financials has returned several filings from different places.
C19_Witness ==
    /\ financial_pc = "done"
    /\ normalized_financials.public
    /\ Len(normalized_financials.filings) >= 2
    /\ normalized_financials.filings[1].source_url
          # normalized_financials.filings[2].source_url
    /\ normalized_financials.provenance[2].source_url
          = normalized_financials.filings[2].source_url

\* A provider's article without a title or a snippet, and with a URL.
NeedsEnrichment(a) ==
    /\ ~Truthy(Get(a, "title")) \/ ~Truthy(Get(a, "snippet"))
    /\ Truthy(Get(a, "url"))

\* The articles the enrichment pass of the invocation in progress fetched.
PagesFetched == {calls[k][2] : k \in {j \in 1..Len(calls) : calls[j][1] = "fetch_url"}}

\* C20: on a cache miss, once the enrichment pass of fetch_company_news_multi
\* is over, the page of every provider article that lacks a title or a
\* snippet and carries a URL has been fetched, as long as fewer than 3
\* enrichments had been performed before it.
C20_EnrichmentEffective ==
    news_pc \in {"normalize", "save"} =>
        \A i \in 1..Len(articles) :
            NeedsEnrichment(articles[i]) /\ i <= NewsFallbackBudget
                => i \in PagesFetched

\* The articles the pass has called fetch_url for.
FetchedSet == {enr_fetches[k][1] : k \in 1..Len(enr_fetches)}

\* An article with headline and summary, or one without a URL.
NothingToEnrich(a) ==
    \/ Truthy(Get(a, "headline")) /\ Truthy(Get(a, "summary"))
    \/ ~Truthy(Get(a, "source_url"))

\* A field that held a value still holds that value.
FieldKept(before, after, key) ==
    Truthy(Get(before, key)) => Get(after, key) = Get(before, key)

\* C21: through enrich_with_html_fallback a headline or summary that was
\* non-empty keeps its value; an article that is complete, or has no usable
\* source URL, keeps all its fields and causes no fetch_url call.
C21_NeverOverwrites ==
    /\ Len(enr_articles) = Len(enr_input)
    /\ \A i \in 1..Len(enr_input) :
          /\ FieldKept(enr_input[i], enr_articles[i], "headline")
          /\ FieldKept(enr_input[i], enr_articles[i], "summary")
          /\ NothingToEnrich(enr_input[i]) =>
                enr_articles[i] = enr_input[i] /\ i \notin FetchedSet

\* An article with a headline and no summary was enriched from a page that has
\* a title of its own, next to a complete article and one without a URL.
C21_Witness ==
    /\ enr_pc = "done"
    /\ enr_input = <<NewsItem("H", "", "u"), NewsItem("H", "S", "u"),
                     NewsItem(None, None, None)>>
    /\ EnrichedSet = {1}
    /\ enr_articles[1] = NewsItem("H", "Desc", "u")

\* C22: one enrichment pass calls fetch_url on at most max_fallback articles,
\* whatever the articles and whichever fetches succeed or fail.
C22_BoundedFetchWork == Cardinality(FetchedSet) <= enr_max

\* A list that is missing, or there and empty.
AbsentOrEmpty(field) == ~field.present \/ field.items = <<>>

\* The record emitted for a study carries the defaults of its missing fields.
EmittedWithDefaults(study, trial) ==
    /\ trial.nct = study.nctId
    /\ AbsentOrEmpty(study.phases) => trial.phase = "unknown"
    /\ AbsentOrEmpty(study.conditions) => trial.condition = None
    /\ AbsentOrEmpty(study.interventions) => trial.intervention = None

\* C23: normalize_trials does not raise on study records that are mappings; a
\* study whose phases list is absent or empty is emitted with phase unknown,
\* one whose conditions or interventions list is absent or empty with a null
\* condition or intervention, and every trial of the input is in the output.
C23_FieldsDefault ==
    /\ trials_pc # "raised"
    /\ trials_pc = "done" =>
          LET flat == InInputOrder(raw_results.items) IN
          \A i \in FirstOccurrences(flat) :
              \E k \in 1..Len(trials_ret.candidates) :
                  EmittedWithDefaults(flat[i].study, trials_ret.candidates[k])

\* The queries, in variant order, whose answer holds the trial.
QueriesReturning(nct) ==
    {q \in 1..Len(trial_queries) :
        \E k \in 1..Len(trial_queries[q].studies) :
            trial_queries[q].studies[k].nctId = nct}

\* The variant whose query returned the trial first.
FirstVariantReturning(nct) ==
    LET qs == QueriesReturning(nct)
    IN trial_queries[CHOOSE q \in qs : \A r \in qs : q <= r].variant

\* C24: in the profile build_profiles emits, the matched_variant of every
\* candidate is the name variant whose trial query was the first, in variant
\* order, to return the candidate's nct id.
C24_MatchedVariant ==
    pipeline_pc = "done" =>
        \A k \in 1..Len(normalized_trials.candidates) :
            normalized_trials.candidates[k].matched_variant
                = FirstVariantReturning(normalized_trials.candidates[k].nct)

\* C25: fetch_company_news_multi(X, max_results = m, use_cache) returns at
\* most m items, from the provider tiers or from the cache, whatever calls
\* came before; on a miss the candidates collected never exceed m.
C25_ResultSizeBound ==
    /\ news_pc = "return" => Len(news_ret) <= max_results
    /\ news_pc \in {"bing", "gdelt", "enrich", "normalize", "save"} =>
          Len(articles) <= max_results

====
